---- MODULE Spec2Model ----
(***************************************************************************)
(* A model of XTelegramBot (src/main.py): the classifier should_skip_post, *)
(* the dedup store (SQLite table processed_tweets and the in-memory        *)
(* indices derived from it) and the ingestion cycle fetch_tweets /         *)
(* process_tweet.                                                          *)
(*                                                                         *)
(* Texts are sequences of tokens.  A token stands for a run of characters  *)
(* of one class, so that the regular expressions and substring tests of    *)
(* the source can be computed on it:                                       *)
(*   "sp"     white space                                                  *)
(*   "w7"     seven lower-case letters                                     *)
(*   "w8"     eight lower-case letters                                     *)
(*   "W8"     the same eight letters in upper case                         *)
(*   "emoji"  one emoji of the ranges of both emoji patterns               *)
(*   "url"    an http(s) link, "https://t.co/abc123"                       *)
(*   "dom"    a denylisted domain written in the text, "whop.com"          *)
(*   "phrase" a denylisted phrase, "0% spot fees"                          *)
(*   "ell"    the ellipsis character                                       *)
(*   "w5"     the word "Check"                                             *)
(*   "w3"     the word "out"                                               *)
(* A media URL is "ok" (an ordinary URL), "bad" (a URL on a denylisted     *)
(* domain) or "none" (the attribute exists and holds None).                *)
(***************************************************************************)
EXTENDS Integers, Sequences, FiniteSets, TLC

(* ------------------------------ bounds -------------------------------- *)
MaxTextLen == 3
MaxMedia == 1
MaxBatch == 2
MaxNow == 1440
MaxDelivered == 2
MaxSaves == 2

(* ------------------------- program constants -------------------------- *)
MinContentChars == 15
LoadWindow == 1440
FetchLookback == 60
FreshMinutes == 60
TwitterLimit == 280

Tokens == {"sp", "w7", "w8", "W8", "emoji", "url", "dom", "phrase", "ell"}
MediaKinds == {"ok", "bad", "none"}

RECURSIVE SeqsUpTo(_, _)
SeqsUpTo(S, n) ==
  IF n = 0 THEN {<<>>}
  ELSE LET shorter == SeqsUpTo(S, n - 1)
       IN  shorter \cup {Append(s, x) : s \in {t \in shorter : Len(t) = n - 1}, x \in S}

Texts == SeqsUpTo(Tokens, MaxTextLen)

\* "Check out https://t.co/abc123"
ScenarioC == <<"w5", "sp", "w3", "sp", "url">>
MediaLists == SeqsUpTo(MediaKinds, MaxMedia)

(* ----------------------------- str helpers ---------------------------- *)
\* len() of one token in characters
CharLen(tok) ==
  CASE tok = "sp" -> 1
    [] tok = "w7" -> 7
    [] tok = "w8" -> 8
    [] tok = "W8" -> 8
    [] tok = "emoji" -> 1
    [] tok = "url" -> 19
    [] tok = "dom" -> 8
    [] tok = "phrase" -> 12
    [] tok = "ell" -> 1
    [] tok = "w5" -> 5
    [] tok = "w3" -> 3

RECURSIVE TextLen(_)
TextLen(text) == IF text = <<>> THEN 0 ELSE CharLen(Head(text)) + TextLen(Tail(text))

RECURSIVE LStrip(_)
LStrip(text) ==
  IF text = <<>> THEN <<>>
  ELSE IF Head(text) = "sp" THEN LStrip(Tail(text)) ELSE text

RECURSIVE RStrip(_)
RStrip(text) ==
  IF text = <<>> THEN <<>>
  ELSE IF text[Len(text)] = "sp" THEN RStrip(SubSeq(text, 1, Len(text) - 1)) ELSE text

\* str.strip()
Strip(text) == RStrip(LStrip(text))

\* str.lower()
Lower(text) == [i \in 1..Len(text) |-> IF text[i] = "W8" THEN "w8" ELSE text[i]]

Contains(text, tok) == \E i \in 1..Len(text) : text[i] = tok

\* re.sub(r'\s+', '', text)
RemoveSpace(text) == SelectSeq(text, LAMBDA t : t # "sp")

\* emoji_pattern.sub('', text)
RemoveEmoji(text) == SelectSeq(text, LAMBDA t : t # "emoji")

\* url_regex.sub('', text) for a regex whose alternatives all end in [^\s]+ or
\* [^\s]*: a match starts at a token of `starts` and runs to the next white space.
RECURSIVE RemoveUrlRuns(_, _, _)
RemoveUrlRuns(text, starts, inUrl) ==
  IF text = <<>> THEN <<>>
  ELSE LET t == Head(text)
       IN  IF t = "sp" THEN <<t>> \o RemoveUrlRuns(Tail(text), starts, FALSE)
           ELSE IF inUrl \/ t \in starts THEN RemoveUrlRuns(Tail(text), starts, TRUE)
           ELSE <<t>> \o RemoveUrlRuns(Tail(text), starts, FALSE)

\* the characters of a token that the last re.sub of the length check keeps
\* (word characters and Thai letters)
WordChars(tok) ==
  CASE tok = "w7" -> 7
    [] tok = "w8" -> 8
    [] tok = "W8" -> 8
    [] tok = "dom" -> 7
    [] tok = "phrase" -> 9
    [] tok = "w5" -> 5
    [] tok = "w3" -> 3
    [] OTHER -> 0

RECURSIVE CountWordChars(_)
CountWordChars(text) ==
  IF text = <<>> THEN 0 ELSE WordChars(Head(text)) + CountWordChars(Tail(text))

(* ------------------------------ classifier ---------------------------- *)
is_emoji_only_post(text) ==
  LET clean_text == RemoveSpace(Strip(text))
  IN  IF clean_text = <<>> THEN FALSE
      ELSE Len(Strip(RemoveEmoji(clean_text))) = 0 /\ Len(clean_text) > 0

\* a mutant of is_link_only_post: any URL in the text makes it link-only
LinkOnlyIfAnyUrl(text) ==
  LET clean_text == Strip(text)
  IN  Contains(clean_text, "url") \/ Contains(clean_text, "dom")

is_link_only_post(text) ==
  LET clean_text == Strip(text)
      hasUrl == Contains(clean_text, "url") \/ Contains(clean_text, "dom")
      remaining == Strip(RemoveSpace(RemoveUrlRuns(clean_text, {"url", "dom"}, FALSE)))
  IN  IF clean_text = <<>> THEN FALSE
      ELSE IF ~hasUrl THEN FALSE
      ELSE Len(remaining) = 0

Result(skip, reason) == [skip |-> skip, reason |-> reason]
Raised == [skip |-> FALSE, reason |-> "raised"]

\* the media loop of should_skip_post: None.lower() raises AttributeError
MediaCheck(media_urls) ==
  LET firstBad == {i \in 1..Len(media_urls) : media_urls[i] = "bad"}
      firstNone == {i \in 1..Len(media_urls) : media_urls[i] = "none"}
      Min(S) == CHOOSE x \in S : \A y \in S : x <= y
  IN  IF firstBad = {} /\ firstNone = {} THEN "pass"
      ELSE IF firstNone = {} THEN "blocked"
      ELSE IF firstBad = {} THEN "raise"
      ELSE IF Min(firstBad) < Min(firstNone) THEN "blocked" ELSE "raise"

\* a mutant of the try block: the media loop runs before the emoji-only and
\* link-only checks
ShouldSkipBodyMediaFirst(text, media_urls) ==
  LET text_lower == Strip(Lower(text))
      text_clean == RemoveSpace(RemoveEmoji(RemoveUrlRuns(text, {"url"}, FALSE)))
      m == MediaCheck(media_urls)
  IN  IF Len(text) = 0 \/ Len(Strip(text)) = 0 THEN Result(TRUE, "empty_text")
      ELSE IF Contains(text_lower, "phrase") THEN Result(TRUE, "blocked_phrase")
      ELSE IF Contains(text_lower, "dom") THEN Result(TRUE, "blocked_domain")
      ELSE IF m = "blocked" THEN Result(TRUE, "blocked_media")
      ELSE IF m = "raise" THEN Raised
      ELSE IF is_emoji_only_post(text) THEN Result(TRUE, "emoji_only")
      ELSE IF is_link_only_post(text) THEN Result(TRUE, "link_only")
      ELSE IF CountWordChars(text_clean) < MinContentChars
           THEN Result(TRUE, "short_content_with_link_emoji")
      ELSE Result(FALSE, "normal")

\* the try block of should_skip_post
ShouldSkipBody(text, media_urls) ==
  LET text_lower == Strip(Lower(text))
      text_clean == RemoveSpace(RemoveEmoji(RemoveUrlRuns(text, {"url"}, FALSE)))
      m == MediaCheck(media_urls)
  IN  IF Len(text) = 0 \/ Len(Strip(text)) = 0 THEN Result(TRUE, "empty_text")
      ELSE IF Contains(text_lower, "phrase") THEN Result(TRUE, "blocked_phrase")
      ELSE IF Contains(text_lower, "dom") THEN Result(TRUE, "blocked_domain")
      ELSE IF Contains(text_lower, "dom") THEN Result(TRUE, "blocked_pattern")
      ELSE IF is_emoji_only_post(text) THEN Result(TRUE, "emoji_only")
      ELSE IF is_link_only_post(text) THEN Result(TRUE, "link_only")
      ELSE IF m = "blocked" THEN Result(TRUE, "blocked_media")
      ELSE IF m = "raise" THEN Raised
      ELSE IF CountWordChars(text_clean) < MinContentChars
           THEN Result(TRUE, "short_content_with_link_emoji")
      ELSE Result(FALSE, "normal")

\* a mutant of the except clause: it lets the post through
ShouldSkipPostFailOpen(text, media_urls) ==
  LET r == ShouldSkipBody(text, media_urls)
  IN  IF r = Raised THEN Result(FALSE, "normal") ELSE r

\* should_skip_post: the try block and its except clause
should_skip_post(text, media_urls) ==
  LET r == ShouldSkipBody(text, media_urls)
  IN  IF r = Raised THEN Result(TRUE, "error_blocked_for_safety") ELSE r

(* ------------------------------- the world ---------------------------- *)
\* tweet.id values are 1..Len(world); NoId stands for None
NoId == 0
NumAccounts == 2
MaxCycles == 2
MaxAccounts == 3
MaxClock == 40
MaxReports == 3
MaxSends == 103
Accounts == 0..(NumAccounts - 1)
Tasks == {"startup", "job"}

Retention == 10080
SlotMinutes == 20
CooldownMinutes == 20
FailureLimit == 3
MaxProcessedTweets == 1000
KeepProcessedTweets == 500
MaxContentHashes == 2000
KeepContentHashes == 1000
MaxTranslationCache == 100
KeepTranslationCache == 50
max_sent_cache == 100
KeepSentCache == 50

Post(text, note, full, media, created) ==
  [text |-> text, note |-> note, full |-> full, media |-> media, created_at |-> created,
   mentionSelf |-> FALSE, mentionOther |-> FALSE, atStart |-> FALSE,
   retweetOf |-> "none", legacyRT |-> "none", replyTo |-> "none"]

\* Two timelines of the target account, each in (created_at, id) order.
\* TimelineDup:  1  an ordinary post
\*               2  the text of post 1 in another case: the same fingerprint
\*               3  the text of post 1 again, posted a day later
TimelineDup ==
  << Post(<<"w8", "sp", "w8">>, <<>>, <<"w8", "sp", "w8">>, <<>>, 0),
     Post(<<"W8", "sp", "w8">>, <<>>, <<"W8", "sp", "w8">>, <<>>, 0),
     Post(<<"w8", "sp", "w8">>, <<>>, <<"w8", "sp", "w8">>, <<>>, LoadWindow) >>

\* TimelineBlock:  1  a truncated post whose full text holds a denylisted
\*                    phrase, with a media URL on a denylisted domain
\*                 2  a post whose note_tweet holds a denylisted phrase and
\*                    whose media object has url None
TimelineBlock ==
  << Post(<<"w8", "w8", "ell">>, <<>>, <<"w8", "w8", "sp", "phrase">>, <<"bad">>, 0),
     Post(<<"w8", "w8">>, <<"w8", "sp", "phrase">>, <<"w8", "w8">>, <<"none">>, 0) >>

\* TimelineEarly:  1  a post whose text as fetched links to a denylisted domain
\*                 2  an emoji-only post with a media URL on a denylisted domain
\*                 3  an ordinary post
TimelineEarly ==
  << Post(<<"w8", "sp", "dom">>, <<>>, <<"w8", "sp", "dom">>, <<>>, 0),
     Post(<<"emoji">>, <<>>, <<"emoji">>, <<"bad">>, 0),
     Post(<<"w8", "w8">>, <<>>, <<"w8", "w8">>, <<"ok">>, 0) >>

\* TimelineOne:  1  an ordinary post
TimelineOne ==
  << Post(<<"w8", "sp", "w7">>, <<>>, <<"w8", "sp", "w7">>, <<"ok">>, 0) >>

\* TimelineRaise:  1  a post whose note_tweet holds a denylisted phrase and
\*                    whose media object has url None
\*                 2  an ordinary post
\*                 3  another ordinary post
TimelineRaise ==
  << Post(<<"w8", "sp", "w8">>, <<"w8", "sp", "phrase">>, <<"w8", "sp", "w8">>, <<"none">>, 0),
     Post(<<"w8", "sp", "w7">>, <<>>, <<"w8", "sp", "w7">>, <<>>, 0),
     Post(<<"w7", "sp", "w8">>, <<>>, <<"w7", "sp", "w8">>, <<>>, 0) >>

\* TimelineLong:  1  a truncated post with an ordinary full text
\*                2  another one
TimelineLong ==
  << Post(<<"w8", "w8", "ell">>, <<>>, <<"w8", "w8", "sp", "w8">>, <<>>, 0),
     Post(<<"w7", "w8", "ell">>, <<>>, <<"w7", "w8", "sp", "w8">>, <<>>, 0) >>

Timelines == {TimelineDup, TimelineBlock, TimelineEarly, TimelineOne, TimelineRaise}

\* the runs explored: a timeline, and whether the X API and the translator
\* fail in the run
Scenarios == {<<TimelineDup, FALSE>>, <<TimelineBlock, FALSE>>, <<TimelineEarly, FALSE>>,
              <<TimelineOne, TRUE>>, <<TimelineRaise, FALSE>>}

VARIABLES
  clsText, clsMedia, clsResult,   \* the classifier's input and what it returned
  lastSave,                       \* per ID: the last direct save_processed_tweet call
  probe,                          \* the last direct call of a helper and what it returned
  world,                          \* the posts the remote platform holds
  flaky,                          \* whether the X API and the translator fail in this run
  now,                            \* wall clock, in minutes
  db,                             \* table processed_tweets, in processed_at order
  processed_tweets, processed_content_hashes, since_id,
  processing,                     \* _processing_tweets
  sent_message_hashes, translation_cache,
  is_fetching,                    \* _is_fetching
  cached_user_id,
  current_account_index, account_stats,
  pc, loc,                        \* each fetch_tweets caller: where it is, its locals
  cycles,                         \* cycles started since the process started
  delivered,                      \* messages the channel received, per post
  outcome                         \* how the last process_tweet pass of a post ended

clsVars == <<clsText, clsMedia, clsResult, lastSave, probe>>
memVars == <<processed_tweets, processed_content_hashes, since_id, processing,
             sent_message_hashes, translation_cache, is_fetching, cached_user_id,
             current_account_index, account_stats>>
taskVars == <<pc, loc, cycles>>
pipeVars == <<world, flaky, now, db, memVars, taskVars, delivered, outcome>>
vars == <<clsVars, pipeVars>>

Posts == 1..Len(world)

(* ------------------------------ fingerprints -------------------------- *)
MediaRank(u) == CASE u = "bad" -> 1 [] u = "ok" -> 2 [] OTHER -> 3

RECURSIVE SortMedia(_)
SortMedia(media_urls) ==
  IF media_urls = <<>> THEN <<>>
  ELSE LET i == CHOOSE k \in 1..Len(media_urls) :
                  \A j \in 1..Len(media_urls) : MediaRank(media_urls[k]) <= MediaRank(media_urls[j])
           rest == [j \in 1..(Len(media_urls) - 1) |->
                      IF j < i THEN media_urls[j] ELSE media_urls[j + 1]]
       IN  <<media_urls[i]>> \o SortMedia(rest)

\* '|'.join(sorted(media_urls)) raises TypeError on a None
HashRaises(media_urls) == Contains(media_urls, "none")

\* generate_content_hash: md5 is taken to be injective
generate_content_hash(content, media_urls) ==
  Lower(Strip(content)) \o SortMedia(media_urls)

\* generate_message_hash: the post, the head of the message, the number of media
generate_message_hash(message, media_urls, tweet_id) ==
  <<tweet_id, message, Len(media_urls)>>

is_truncated_tweet(text) ==
  LET t == RStrip(text)
  IN  (t # <<>> /\ t[Len(t)] = "ell") \/ TextLen(text) >= TwitterLimit

TooOldAtCutoff(created_at, t) == t - created_at >= FreshMinutes

is_tweet_too_old(created_at, t) == t - created_at > FreshMinutes

(* -------------------------------- the store --------------------------- *)
Row(id, content, translated, hash, t) ==
  [tweet_id |-> id, content |-> content, translated |-> translated,
   content_hash |-> hash, processed_at |-> t, is_thread |-> FALSE]

\* a mutant of the upsert: a plain INSERT into a table without a primary key
InsertNoReplace(table, row) == Append(table, row)

\* INSERT OR REPLACE on the primary key tweet_id; processed_at takes its default
InsertOrReplace(table, row) ==
  Append(SelectSeq(table, LAMBDA r : r.tweet_id # row.tweet_id), row)

RowIds(table) == {table[i].tweet_id : i \in 1..Len(table)}
Recent(table, t) == SelectSeq(table, LAMBDA r : r.processed_at > t - LoadWindow)

\* a memory image m holds the fields of the bot that a pass reads and writes
Mem == [db |-> db, pt |-> processed_tweets, ph |-> processed_content_hashes,
        since |-> since_id, proc |-> processing, cur |-> current_account_index,
        stats |-> account_stats]

\* a mutant of save_processed_tweet: since_id follows every record
SaveMovesWatermark(m, id, content, translated, hash, is_thread, t) ==
  [m EXCEPT !.db = InsertOrReplace(@, Row(id, content, translated, hash, t)),
            !.pt = @ \cup {id},
            !.ph = @ \cup {hash},
            !.since = id]

save_processed_tweet(m, id, content, translated, hash, is_thread, t) ==
  [m EXCEPT !.db = InsertOrReplace(@, Row(id, content, translated, hash, t)),
            !.pt = @ \cup {id},
            !.ph = @ \cup {hash},
            !.since = IF is_thread THEN @ ELSE id]

\* a mutant of the except clause of save_processed_tweet: the indices are
\* updated although the INSERT raised
IndexWithoutRow(m, id, content, translated, hash, is_thread, t, wrote) ==
  IF wrote THEN save_processed_tweet(m, id, content, translated, hash, is_thread, t)
  ELSE [m EXCEPT !.pt = @ \cup {id}, !.ph = @ \cup {hash},
                 !.since = IF is_thread THEN @ ELSE id]

\* save_processed_tweet with the outcome of its INSERT: sqlite3 raising inside
\* the try block skips the lines that follow and the except clause only logs
SaveAttempt(m, id, content, translated, hash, is_thread, t, wrote) ==
  IF wrote THEN save_processed_tweet(m, id, content, translated, hash, is_thread, t)
  ELSE m

\* a mutant of load_processed_tweets: no ID is read back
LoadNoIds(table, t) == {}

\* load_processed_tweets: the rows of the last 24 hours and the newest of them
LoadIds(table, t) == RowIds(Recent(table, t))
LoadHashes(table, t) ==
  LET recent == Recent(table, t)
  IN  {recent[i].content_hash : i \in 1..Len(recent)}
LoadSince(table, t) ==
  LET recent == Recent(table, t)
  IN  IF recent = <<>> THEN NoId ELSE recent[Len(recent)].tweet_id

(* ------------------------------- accounts ----------------------------- *)
\* _init_account_stats for the first n entries of x_accounts
StatsOf(n) == [a \in 0..(n - 1) |->
  [api_calls |-> 0, successful_calls |-> 0, failed_calls |-> 0,
   consecutive_failures |-> 0, rate_limited_until |-> 0, last_used |-> 0]]

InitStats == StatsOf(NumAccounts)

\* len(self.x_accounts)
NumberOf(stats) == Cardinality(DOMAIN stats)

\* a mutant of the rate-limit test: no account is ever held back
AlwaysAvailable(stats, a, t) == TRUE

Available(stats, a, t) == stats[a].rate_limited_until <= t

\* time_slot % len(self.x_accounts) divides by zero when x_accounts is empty
GetBestRaises(stats) == NumberOf(stats) = 0

\* a mutant of the selection: the account of the time slot, whatever its state
PreferredRegardless(stats, t) == (t \div SlotMinutes) % NumberOf(stats)

get_best_available_account(stats, t) ==
  LET preferred_index == (t \div SlotMinutes) % NumberOf(stats)
      available == {a \in DOMAIN stats : Available(stats, a, t)}
  IN  IF Available(stats, preferred_index, t) THEN preferred_index
      ELSE IF available # {} THEN CHOOSE a \in available : \A b \in available : a <= b
      ELSE 0

\* a mutant of the rotation: the bot stays with the current account
StayOnCurrent(stats, current_index, t) == current_index

get_next_available_account(stats, current_index, t) ==
  LET steps == {i \in 1..(NumberOf(stats) - 1) :
                  Available(stats, (current_index + i) % NumberOf(stats), t)}
  IN  IF steps = {} THEN current_index
      ELSE (current_index + (CHOOSE i \in steps : \A j \in steps : i <= j))
             % NumberOf(stats)

\* a mutant of update_account_stats: a success is counted as a call only
CountsCallOnly(m, account_id, success, rate_limited, t) ==
  IF account_id \notin DOMAIN m.stats THEN m ELSE
  [m EXCEPT !.stats[account_id].api_calls = @ + 1,
            !.stats[account_id].last_used = t,
            !.stats[account_id].failed_calls = IF success THEN @ ELSE @ + 1]

\* an account_id that is no key of account_stats raises KeyError inside the
\* try block and leaves everything as it was
update_account_stats(m, account_id, success, rate_limited, t) ==
  IF account_id \notin DOMAIN m.stats THEN m ELSE
  LET s0 == m.stats[account_id]
      s1 == [s0 EXCEPT !.api_calls = @ + 1, !.last_used = t,
                       !.successful_calls = IF success THEN @ + 1 ELSE @,
                       !.failed_calls = IF success THEN @ ELSE @ + 1,
                       !.consecutive_failures = IF success THEN 0 ELSE @ + 1]
      s2 == IF rate_limited THEN [s1 EXCEPT !.rate_limited_until = t + CooldownMinutes] ELSE s1
      stats2 == [m.stats EXCEPT ![account_id] = s2]
      rotate == rate_limited \/ s2.consecutive_failures >= FailureLimit
  IN  [m EXCEPT !.stats = stats2,
                !.cur = IF rotate THEN get_next_available_account(stats2, m.cur, t) ELSE @]

(* ----------------------------- interactions --------------------------- *)
Interaction(is_self, kind) == [is_self |-> is_self, kind |-> kind]

NeedsRetweetLookup(tw) == ~tw.mentionSelf /\ tw.retweetOf # "none"
NeedsReplyLookup(tw) == ~tw.mentionSelf /\ tw.replyTo # "none"

\* a mutant of is_self_interaction: the repost check comes before the mentions
RepostBeforeMention(tw, lkRt, lkRe) ==
  IF tw.retweetOf # "none" /\ lkRt
  THEN IF tw.retweetOf = "self" THEN Interaction(TRUE, "self_retweet")
       ELSE Interaction(FALSE, "other_retweet")
  ELSE IF tw.mentionSelf
  THEN IF tw.mentionOther THEN Interaction(TRUE, "self_mention_mixed")
       ELSE Interaction(TRUE, "self_mention_pure")
  ELSE IF tw.legacyRT # "none"
  THEN Interaction(FALSE, "other_retweet_legacy")
  ELSE IF tw.replyTo # "none" /\ lkRe
  THEN IF tw.replyTo = "self" THEN Interaction(TRUE, "self_reply")
       ELSE Interaction(FALSE, "other_reply")
  ELSE Interaction(FALSE, "normal")

\* is_self_interaction; lkRt and lkRe say whether the lookup of the reposted
\* post's author and of the replied-to user returned data
is_self_interaction(tw, lkRt, lkRe) ==
  IF tw.mentionSelf
  THEN IF tw.mentionOther THEN Interaction(TRUE, "self_mention_mixed")
       ELSE Interaction(TRUE, "self_mention_pure")
  ELSE IF tw.retweetOf # "none" /\ lkRt
  THEN IF tw.retweetOf = "self" THEN Interaction(TRUE, "self_retweet")
       ELSE Interaction(FALSE, "other_retweet")
  ELSE IF tw.legacyRT # "none"
  THEN IF tw.legacyRT = "self" THEN Interaction(TRUE, "self_retweet_legacy")
       ELSE Interaction(FALSE, "other_retweet_legacy")
  ELSE IF tw.replyTo # "none" /\ lkRe
  THEN IF tw.replyTo = "self" THEN Interaction(TRUE, "self_reply")
       ELSE Interaction(FALSE, "other_reply")
  ELSE Interaction(FALSE, "normal")

\* the remote calls is_self_interaction makes for a post: client.get_tweet for
\* a reposted post, client.get_user for a replied-to user
Lookups(tw, lkRt, lkRe) ==
  IF tw.mentionSelf THEN 0
  ELSE IF tw.retweetOf # "none" /\ lkRt THEN 1
  ELSE (IF tw.retweetOf # "none" THEN 1 ELSE 0) +
       (IF tw.legacyRT = "none" /\ tw.replyTo # "none" THEN 1 ELSE 0)

is_reply_to_others(tw) == tw.replyTo = "other"

MentionOthersAnywhere(tw) == tw.mentionOther /\ ~tw.mentionSelf

is_mention_others_only(tw) == tw.atStart /\ tw.mentionOther /\ ~tw.mentionSelf

SelfKinds == {"self_mention_pure", "self_mention_mixed", "self_retweet",
              "self_retweet_legacy", "self_reply"}

\* the filter of fetch_tweets for one post that is neither processed nor too old
Accepted(tw, lkRt, lkRe) ==
  LET r == is_self_interaction(tw, lkRt, lkRe)
  IN  IF r.is_self THEN r.kind \in SelfKinds
      ELSE IF r.kind = "normal" THEN ~is_reply_to_others(tw) /\ ~is_mention_others_only(tw)
      ELSE FALSE

(* ------------------------------ process_tweet ------------------------- *)
Mark(m, id) == [m EXCEPT !.proc = @ \cup {id}]

\* a mutant of unm_processing: the mark stays
KeepMark(m, id) == m

\* unm_processing
Unmark(m, id) == [m EXCEPT !.proc = @ \ {id}]

Select(m, t) == [m EXCEPT !.cur = get_best_available_account(m.stats, t)]

\* get_note_tweet_content: the report to update_account_stats
ExpandStats(m, acc, exp, t) ==
  CASE exp \in {"ok", "nodata"} -> update_account_stats(m, acc, TRUE, FALSE, t)
    [] exp = "ratelimit" -> update_account_stats(m, acc, FALSE, TRUE, t)
    [] OTHER -> update_account_stats(m, acc, FALSE, FALSE, t)

Pass(m, res, content, media, hash, itype) ==
  [m |-> m, res |-> res, content |-> content, media |-> media, hash |-> hash, itype |-> itype]

\* a mutant of the duplicate check: the fingerprint index is not consulted
NeverDuplicate(m, hash) == FALSE

\* content_hash in self.processed_content_hashes
IsDuplicate(m, hash) == hash \in m.ph

\* a mutant of the entry guard of process_tweet: it lets every ID in
NeverHandled(m, id) == FALSE

\* tweet.id in self.processed_tweets or self.is_already_processing(tweet.id)
AlreadyHandled(m, id) == id \in m.pt \/ id \in m.proc

\* process_tweet from its entry up to its first await of a network call:
\* res says where the pass got to
ProcessTweetHead(m, id, acc, t, lkRt, lkRe, exp) ==
  LET tw == world[id]
      original_text == tw.text
      r0 == should_skip_post(original_text, <<>>)
      m1 == Mark(m, id)
      m2 == Select(m1, t)
      inter == is_self_interaction(tw, lkRt, lkRe)
      tryExpand == tw.note = <<>> /\ is_truncated_tweet(original_text)
      m3 == IF tryExpand THEN ExpandStats(Select(m2, t), acc, exp, t) ELSE m2
      full_content == IF exp = "ok" THEN tw.full ELSE <<>>
      adopted == tryExpand /\ full_content # <<>> /\ TextLen(full_content) > TextLen(original_text)
      content == IF tw.note # <<>> THEN tw.note
                 ELSE IF adopted THEN full_content ELSE original_text
      r1 == should_skip_post(content, <<>>)
      media_urls == tw.media
      r2 == should_skip_post(content, media_urls)
      h0 == generate_content_hash(original_text, <<>>)
      h1 == generate_content_hash(content, <<>>)
      h2 == generate_content_hash(content, media_urls)
  IN  IF AlreadyHandled(m, id)
      THEN Pass(m, "guard", <<>>, <<>>, <<>>, "none")
      ELSE IF r0.skip
      THEN Pass(Unmark(save_processed_tweet(m1, id, original_text,
                          <<"ENTRY-BLOCKED", r0.reason>>, h0, FALSE, t), id),
                "entry_blocked", original_text, <<>>, h0, "none")
      ELSE IF adopted /\ r1.skip
      THEN Pass(Unmark(save_processed_tweet(m3, id, content,
                          <<"EXPANDED-BLOCKED", r1.reason>>, h1, FALSE, t), id),
                "expanded_blocked", content, <<>>, h1, inter.kind)
      ELSE IF r2.skip /\ HashRaises(media_urls)
      THEN Pass(Unmark(m3, id), "exception", content, media_urls, <<>>, inter.kind)
      ELSE IF r2.skip
      THEN Pass(Unmark(save_processed_tweet(m3, id, content,
                          <<"MEDIA-BLOCKED", r2.reason>>, h2, FALSE, t), id),
                "media_blocked", content, media_urls, h2, inter.kind)
      ELSE IF IsDuplicate(m3, h2)
      THEN Pass(Unmark(m3, id), "duplicate", content, media_urls, h2, inter.kind)
      ELSE Pass(m3, "translate", content, media_urls, h2, inter.kind)

\* a mutant of the end of process_tweet: the record is written only for a
\* message that was delivered
CommitIfSent(m, id, content, trans, hash, t, sent) ==
  IF sent
  THEN Unmark(save_processed_tweet(m, id, content, <<"translated", trans>>, hash, FALSE, t), id)
  ELSE Unmark(m, id)

\* the end of process_tweet after send_telegram_message returned sent, which
\* process_tweet does not read
Commit(m, id, content, trans, hash, t, sent) ==
  Unmark(save_processed_tweet(m, id, content, <<"translated", trans>>, hash, FALSE, t), id)

(* -------------------------------- actions ----------------------------- *)
\* relayed lists the posts whose message the cycle has delivered so far,
\* errors the posts whose process_tweet call caught an exception
IdleLoc == [acc |-> 0, since |-> NoId, start |-> 0, batch |-> <<>>, content |-> <<>>,
            media |-> <<>>, hash |-> <<>>, itype |-> "none", trans |-> "none",
            relayed |-> <<>>, errors |-> <<>>]

NoResult == [skip |-> FALSE, reason |-> "not_called"]

NoProbe == [op |-> "none"]

NoSave == [n |-> 0, content |-> <<>>, translated |-> <<>>, content_hash |-> <<>>]

Bump(n) == IF n < MaxDelivered THEN n + 1 ELSE n

\* writes a memory image back to the fields of the bot
Store(m) ==
  /\ db' = m.db
  /\ processed_tweets' = m.pt
  /\ processed_content_hashes' = m.ph
  /\ since_id' = m.since
  /\ processing' = m.proc
  /\ current_account_index' = m.cur
  /\ account_stats' = m.stats

\* get_user_id_cached: the report to update_account_stats
UserStats(m, acc, uo, t) ==
  CASE uo = "cached" -> m
    [] uo = "ok" -> update_account_stats(m, acc, TRUE, FALSE, t)
    [] uo = "nodata" -> update_account_stats(update_account_stats(m, acc, TRUE, FALSE, t),
                                             acc, FALSE, FALSE, t)
    [] uo = "ratelimit" -> update_account_stats(m, acc, FALSE, TRUE, t)
    [] OTHER -> update_account_stats(m, acc, FALSE, FALSE, t)

\* a mutant of the in-flight guard: a call never sees a running cycle
NeverInFlight(flag) == FALSE

\* hasattr(self, '_is_fetching') and self._is_fetching
InFlight(flag) == flag

MayCall(t) == pc[t] = "idle"

\* fetch_tweets called while a cycle is running: it returns at once
TickSkipped(t) ==
  /\ MayCall(t)
  /\ InFlight(is_fetching)
  /\ UNCHANGED vars

\* fetch_tweets from its entry to the call of get_users_tweets
FetchStart(t, uo) ==
  /\ MayCall(t)
  /\ ~InFlight(is_fetching)
  /\ cycles < MaxCycles
  /\ uo \in (IF cached_user_id THEN {"cached"}
             ELSE IF flaky THEN {"ok", "nodata", "ratelimit", "error"} ELSE {"ok"})
  /\ LET m0 == Select(Mem, now)
         acc == m0.cur
         m1 == UserStats(m0, acc, uo, now)
         gotId == uo \in {"cached", "ok"}
     IN  /\ Store(m1)
         /\ cached_user_id' = gotId
         /\ is_fetching' = gotId
         /\ pc' = [pc EXCEPT ![t] = IF gotId THEN "fetching" ELSE "idle"]
         /\ loc' = [loc EXCEPT ![t] = IF gotId
                       THEN [IdleLoc EXCEPT !.acc = acc, !.since = since_id,
                                            !.start = now - FetchLookback]
                       ELSE IdleLoc]
  /\ cycles' = cycles + 1
  /\ UNCHANGED <<clsVars, world, flaky, now, sent_message_hashes, translation_cache,
                 delivered, outcome>>

\* sorted(tweets.data, key=lambda x: (x.created_at, int(x.id)))
Before(a, b) ==
  \/ world[a].created_at < world[b].created_at
  \/ world[a].created_at = world[b].created_at /\ a <= b

\* a mutant of the sort: the posts stay in the order of the reply
AsFetched(b) == b

RECURSIVE SortTweets(_)
SortTweets(b) ==
  IF b = <<>> THEN <<>>
  ELSE LET i == CHOOSE k \in 1..Len(b) :
                  /\ \A j \in 1..Len(b) : Before(b[k], b[j])
                  /\ \A j \in 1..(k - 1) : ~Before(b[j], b[k])
           rest == [j \in 1..(Len(b) - 1) |-> IF j < i THEN b[j] ELSE b[j + 1]]
       IN  <<b[i]>> \o SortTweets(rest)

\* the posts get_users_tweets may return for the request of a cycle
Eligible(l, t) ==
  {p \in Posts : /\ world[p].created_at <= t
                 /\ world[p].created_at >= l.start
                 /\ (l.since # NoId => p > l.since)}

\* the first loop of fetch_tweets over the sorted reply
RECURSIVE Filter(_, _, _, _)
Filter(b, lks, seen, t) ==
  IF b = <<>> THEN <<>>
  ELSE LET id == Head(b)
           rest == Filter(Tail(b), Tail(lks), seen, t)
       IN  IF id \in seen THEN rest
           ELSE IF is_tweet_too_old(world[id].created_at, t) THEN rest
           ELSE IF Accepted(world[id], Head(lks)[1], Head(lks)[2]) THEN <<id>> \o rest
           ELSE rest

LookupChoices(b) ==
  {lks \in [1..Len(b) -> BOOLEAN \X BOOLEAN] :
     \A i \in 1..Len(b) : /\ (NeedsRetweetLookup(world[b[i]]) \/ lks[i][1])
                          /\ (NeedsReplyLookup(world[b[i]]) \/ lks[i][2])}

\* a mutant of the finally clause of fetch_tweets: the guard stays set
GuardLeftSet(t) ==
  /\ is_fetching' = is_fetching
  /\ pc' = [pc EXCEPT ![t] = "idle"]
  /\ loc' = [loc EXCEPT ![t] = IdleLoc]

EndCycle(t) ==
  /\ is_fetching' = FALSE
  /\ pc' = [pc EXCEPT ![t] = "idle"]
  /\ loc' = [loc EXCEPT ![t] = IdleLoc]

\* get_users_tweets fails or returns nothing: the cycle ends
FetchFailed(t, fo) ==
  /\ pc[t] = "fetching"
  /\ fo \in (IF flaky THEN {"ratelimit", "error", "empty"} ELSE {"empty"})
  /\ Store(CASE fo = "ratelimit" -> update_account_stats(Mem, loc[t].acc, FALSE, TRUE, now)
             [] fo = "error" -> update_account_stats(Mem, loc[t].acc, FALSE, FALSE, now)
             [] OTHER -> update_account_stats(Mem, loc[t].acc, TRUE, FALSE, now))
  /\ EndCycle(t)
  /\ UNCHANGED <<clsVars, world, flaky, now, sent_message_hashes, translation_cache,
                 cached_user_id, cycles, delivered, outcome>>

\* get_users_tweets returns posts: they are sorted and filtered
FetchReply(t, reply, lks) ==
  /\ pc[t] = "fetching"
  /\ reply \in SeqsUpTo(Eligible(loc[t], now), MaxBatch) \ {<<>>}
  /\ lks \in LookupChoices(SortTweets(reply))
  /\ Store(update_account_stats(Mem, loc[t].acc, TRUE, FALSE, now))
  /\ loc' = [loc EXCEPT ![t].batch = Filter(SortTweets(reply), lks, processed_tweets, now)]
  /\ pc' = [pc EXCEPT ![t] = "loop"]
  /\ UNCHANGED <<clsVars, world, flaky, now, sent_message_hashes, translation_cache, is_fetching,
                 cached_user_id, cycles, delivered, outcome>>

\* the second loop is done: the finally clause clears the guard
CycleDone(t) ==
  /\ pc[t] = "loop"
  /\ loc[t].batch = <<>>
  /\ EndCycle(t)
  /\ UNCHANGED <<clsVars, world, flaky, now, db, processed_tweets, processed_content_hashes,
                 since_id, processing, sent_message_hashes, translation_cache,
                 cached_user_id, current_account_index, account_stats, cycles,
                 delivered, outcome>>

\* the second loop blocks the next post on its as-fetched text and records it
EarlyBlock(t) ==
  /\ pc[t] = "loop"
  /\ loc[t].batch # <<>>
  /\ LET id == Head(loc[t].batch)
         text == world[id].text
         early == should_skip_post(text, <<>>)
     IN  /\ early.skip
         /\ Store(save_processed_tweet(Mem, id, text, <<"EARLY-BLOCKED", early.reason>>,
                                       generate_content_hash(text, <<>>), FALSE, now))
         /\ outcome' = [outcome EXCEPT ![id] = "early_blocked"]
  /\ loc' = [loc EXCEPT ![t].batch = Tail(@)]
  /\ UNCHANGED <<clsVars, world, flaky, now, sent_message_hashes, translation_cache, is_fetching,
                 cached_user_id, pc, cycles, delivered>>

\* a mutant of the except clause of process_tweet: the exception leaves the
\* loop
AbortOnError(res) ==
  IF res = "translate" THEN "translating"
  ELSE IF res = "exception" THEN "idle" ELSE "sleeping"

\* where the task goes once process_tweet has passed its filters or has
\* returned: every return, the one of the except clause included, leads to
\* the sleep of the loop
AfterProcess(res) == IF res = "translate" THEN "translating" ELSE "sleeping"

\* the second loop calls process_tweet for the next post
ProcessTweet(t, lkRt, lkRe, exp) ==
  /\ pc[t] = "loop"
  /\ loc[t].batch # <<>>
  /\ LET id == Head(loc[t].batch)
         tw == world[id]
     IN  /\ ~should_skip_post(tw.text, <<>>).skip
         /\ (NeedsRetweetLookup(tw) \/ lkRt)
         /\ (NeedsReplyLookup(tw) \/ lkRe)
         /\ exp \in (IF tw.note = <<>> /\ is_truncated_tweet(tw.text)
                     THEN {"ok", "nodata", "ratelimit", "error"} ELSE {"ok"})
         /\ LET r == ProcessTweetHead(Mem, id, loc[t].acc, now, lkRt, lkRe, exp)
            IN  /\ Store(r.m)
                /\ loc' = [loc EXCEPT ![t].content = r.content, ![t].media = r.media,
                                      ![t].hash = r.hash, ![t].itype = r.itype,
                                      ![t].errors = IF r.res = "exception"
                                                    THEN Append(@, id) ELSE @]
                /\ pc' = [pc EXCEPT ![t] = AfterProcess(r.res)]
                /\ outcome' = [outcome EXCEPT ![id] = r.res]
  /\ UNCHANGED <<clsVars, world, flaky, now, sent_message_hashes, translation_cache, is_fetching,
                 cached_user_id, cycles, delivered>>

\* list(a_set)[-keep:] once the set has grown past max: which members stay
\* depends on the set's iteration order
TrimArbitrary(S, max, keep) ==
  IF Cardinality(S) > max THEN {T \in SUBSET S : Cardinality(T) = keep} ELSE {S}

\* set(sorted(a_set)[-keep:]) once the set has grown past max
TrimSorted(S, max, keep) ==
  IF Cardinality(S) > max
  THEN {x \in S : Cardinality({y \in S : y > x}) < keep}
  ELSE S

Cached(cache, content) == {e \in cache : e[1] = content}

\* a mutant of the duplicate test of send_telegram_message
NeverSentBefore(h, sent) == FALSE

\* message_hash in self.sent_message_hashes
AlreadySent(h, sent) == h \in sent

\* translate_text returns; send_telegram_message runs up to its first await
TranslateDone(t, tr, kept) ==
  /\ pc[t] = "translating"
  /\ LET id == Head(loc[t].batch)
         hit == Cached(translation_cache, loc[t].content)
         trans == IF hit # {} THEN (CHOOSE e \in hit : TRUE)[2] ELSE tr
         message == <<loc[t].itype, trans>>
         h == generate_message_hash(message, loc[t].media, id)
     IN  /\ tr \in (IF hit # {} \/ ~flaky THEN {"tr"} ELSE {"tr", "orig"})
         /\ translation_cache' = translation_cache \cup {<<loc[t].content, trans>>}
         /\ loc' = [loc EXCEPT ![t].trans = trans]
         /\ IF AlreadySent(h, sent_message_hashes)
            THEN /\ kept = sent_message_hashes
                 /\ Store(Commit(Mem, id, loc[t].content, trans, loc[t].hash, now, TRUE))
                 /\ pc' = [pc EXCEPT ![t] = "sleeping"]
                 /\ outcome' = [outcome EXCEPT ![id] = "committed"]
                 /\ UNCHANGED sent_message_hashes
            ELSE /\ kept \in TrimArbitrary(sent_message_hashes, max_sent_cache, KeepSentCache)
                 /\ sent_message_hashes' = kept
                 /\ pc' = [pc EXCEPT ![t] = "sending"]
                 /\ UNCHANGED <<db, processed_tweets, processed_content_hashes, since_id,
                                processing, current_account_index, account_stats, outcome>>
  /\ UNCHANGED <<clsVars, world, flaky, now, is_fetching, cached_user_id, cycles,
                 delivered>>

SendOutcomes(media_urls) ==
  IF \E i \in 1..Len(media_urls) : media_urls[i] # "none"
  THEN {"media_group", "text", "fallback_text", "failed"}
  ELSE {"text", "fallback_text", "failed"}

\* send_telegram_message returns; process_tweet saves the record and returns
SendDone(t, so) ==
  /\ pc[t] = "sending"
  /\ so \in SendOutcomes(loc[t].media)
  /\ LET id == Head(loc[t].batch)
         h == generate_message_hash(<<loc[t].itype, loc[t].trans>>, loc[t].media, id)
     IN  /\ delivered' = [delivered EXCEPT ![id] = IF so = "failed" THEN @ ELSE Bump(@)]
         /\ sent_message_hashes' = IF so = "failed" THEN sent_message_hashes
                                   ELSE sent_message_hashes \cup {h}
         /\ Store(Commit(Mem, id, loc[t].content, loc[t].trans, loc[t].hash, now,
                          so # "failed"))
         /\ outcome' = [outcome EXCEPT ![id] = "committed"]
  /\ pc' = [pc EXCEPT ![t] = "sleeping"]
  /\ loc' = [loc EXCEPT ![t].relayed = IF so = "failed" THEN @
                                       ELSE Append(@, Head(loc[t].batch))]
  /\ UNCHANGED <<clsVars, world, flaky, now, translation_cache, is_fetching, cached_user_id,
                 cycles>>

\* the asyncio.sleep after process_tweet is over
SleepDone(t) ==
  /\ pc[t] = "sleeping"
  /\ pc' = [pc EXCEPT ![t] = "loop"]
  /\ loc' = [loc EXCEPT ![t] = [IdleLoc EXCEPT !.acc = loc[t].acc, !.since = loc[t].since,
                                               !.start = loc[t].start,
                                               !.relayed = loc[t].relayed,
                                               !.errors = loc[t].errors,
                                               !.batch = Tail(loc[t].batch)]]
  /\ UNCHANGED <<clsVars, world, flaky, now, db, memVars, cycles, delivered, outcome>>

\* the scheduler's cleanup_memory job
cleanup_memory(keptCache, keptHashes, keptSent) ==
  /\ keptCache \in TrimArbitrary(translation_cache, MaxTranslationCache, KeepTranslationCache)
  /\ keptHashes \in TrimArbitrary(processed_content_hashes, MaxContentHashes, KeepContentHashes)
  /\ keptSent \in TrimArbitrary(sent_message_hashes, max_sent_cache, KeepSentCache)
  /\ translation_cache' = keptCache
  /\ processed_tweets' = TrimSorted(processed_tweets, MaxProcessedTweets, KeepProcessedTweets)
  /\ processed_content_hashes' = keptHashes
  /\ sent_message_hashes' = keptSent
  /\ UNCHANGED <<clsVars, world, flaky, now, db, since_id, processing, is_fetching, cached_user_id,
                 current_account_index, account_stats, taskVars, delivered, outcome>>

\* a mutant of the retention: rows go after an hour
ExpiredAfterAnHour(r, t) == r.processed_at < t - FetchLookback

\* DELETE ... WHERE processed_at < cutoff
Expired(r, t) == r.processed_at < t - Retention

\* the scheduler's cleanup job
cleanup_db ==
  /\ db' = SelectSeq(db, LAMBDA r : ~Expired(r, now))
  /\ UNCHANGED <<clsVars, world, flaky, now, memVars, taskVars, delivered, outcome>>

\* a day passes
Advance ==
  /\ now + LoadWindow <= MaxNow
  /\ now' = now + LoadWindow
  /\ UNCHANGED <<clsVars, world, flaky, db, memVars, taskVars, delivered, outcome>>

\* the process stops at any point and starts again: __init__ runs. A message
\* whose send was in flight when the process stopped has reached the channel
\* or has not (acked).
Restart(acked) ==
  /\ acked \subseteq {t \in Tasks : pc[t] = "sending"}
  /\ delivered' = [p \in Posts |->
                     IF \E t \in acked : Head(loc[t].batch) = p
                     THEN Bump(delivered[p]) ELSE delivered[p]]
  /\ processed_tweets' = LoadIds(db, now)
  /\ processed_content_hashes' = LoadHashes(db, now)
  /\ since_id' = LoadSince(db, now)
  /\ processing' = {}
  /\ sent_message_hashes' = {}
  /\ translation_cache' = {}
  /\ is_fetching' = FALSE
  /\ cached_user_id' = FALSE
  /\ current_account_index' = 0
  /\ account_stats' = InitStats
  /\ pc' = [t \in Tasks |-> "idle"]
  /\ loc' = [t \in Tasks |-> IdleLoc]
  /\ cycles' = 0
  /\ UNCHANGED <<clsVars, world, flaky, now, db, outcome>>

\* the bot after __init__ on the database table, at time t0, facing timeline
\* w, with the accounts _setup_x_accounts configured
PipeInitOn(w, f, t0, stats, table) ==
  /\ world = w
  /\ flaky = f
  /\ now = t0
  /\ db = table
  /\ processed_tweets = LoadIds(table, t0)
  /\ processed_content_hashes = LoadHashes(table, t0)
  /\ since_id = LoadSince(table, t0)
  /\ processing = {}
  /\ sent_message_hashes = {}
  /\ translation_cache = {}
  /\ is_fetching = FALSE
  /\ cached_user_id = FALSE
  /\ current_account_index = 0
  /\ account_stats = stats
  /\ pc = [t \in Tasks |-> "idle"]
  /\ loc = [t \in Tasks |-> IdleLoc]
  /\ cycles = 0
  /\ delivered = [p \in 1..Len(world) |-> 0]
  /\ outcome = [p \in 1..Len(world) |-> "none"]

\* the bot after __init__ on an empty database
PipeInitWith(w, f, t0, stats) == PipeInitOn(w, f, t0, stats, <<>>)

PipeInit == \E sc \in Scenarios : PipeInitWith(sc[1], sc[2], 0, InitStats)

Init ==
  /\ clsText = <<>>
  /\ clsMedia = <<>>
  /\ clsResult = NoResult
  /\ PipeInit
  /\ lastSave = [p \in Posts |-> NoSave]
  /\ probe = NoProbe

Next ==
  \/ \E t \in Tasks : TickSkipped(t)
  \/ \E t \in Tasks, uo \in {"cached", "ok", "nodata", "ratelimit", "error"} : FetchStart(t, uo)
  \/ \E t \in Tasks, fo \in {"ratelimit", "error", "empty"} : FetchFailed(t, fo)
  \/ \E t \in Tasks : \E reply \in SeqsUpTo(Posts, MaxBatch) :
       \E lks \in [1..Len(reply) -> BOOLEAN \X BOOLEAN] : FetchReply(t, reply, lks)
  \/ \E t \in Tasks : CycleDone(t)
  \/ \E t \in Tasks : EarlyBlock(t)
  \/ \E t \in Tasks, lkRt \in BOOLEAN, lkRe \in BOOLEAN,
        exp \in {"ok", "nodata", "ratelimit", "error"} : ProcessTweet(t, lkRt, lkRe, exp)
  \/ \E t \in Tasks, tr \in {"tr", "orig"} : \E kept \in SUBSET sent_message_hashes :
       TranslateDone(t, tr, kept)
  \/ \E t \in Tasks, so \in {"media_group", "text", "fallback_text", "failed"} : SendDone(t, so)
  \/ \E t \in Tasks : SleepDone(t)
  \/ \E kc \in SUBSET translation_cache, kh \in SUBSET processed_content_hashes,
        ks \in SUBSET sent_message_hashes : cleanup_memory(kc, kh, ks)
  \/ cleanup_db
  \/ Advance
  \/ \E acked \in SUBSET Tasks : Restart(acked)

Spec == Init /\ [][Next]_vars

(* ----------------------- the classifier on its own -------------------- *)
Classify ==
  /\ clsResult = NoResult
  /\ clsResult' = should_skip_post(clsText, clsMedia)
  /\ UNCHANGED <<clsText, clsMedia, lastSave, probe, pipeVars>>

InitClassify ==
  /\ clsText \in Texts \cup {ScenarioC}
  /\ clsMedia \in MediaLists
  /\ clsResult = NoResult
  /\ PipeInit
  /\ lastSave = [p \in Posts |-> NoSave]
  /\ probe = NoProbe

NextClassify == Classify

SpecClassify == InitClassify /\ [][NextClassify]_vars

(* ------------------------- the store on its own ----------------------- *)
\* the texts and the tags a caller can pass for a post
SaveContents(id) == {world[id].text, world[id].full, world[id].note} \ {<<>>}
SaveTags == {<<"translated", "tr">>, <<"EARLY-BLOCKED", "blocked_phrase">>}

\* a direct call of save_processed_tweet
StoreSave(id, content, translated) ==
  /\ id \in Posts
  /\ content \in SaveContents(id)
  /\ translated \in SaveTags
  /\ LET hash == generate_content_hash(content, <<>>)
     IN  /\ Store(save_processed_tweet(Mem, id, content, translated, hash, FALSE, now))
         /\ lastSave' = [lastSave EXCEPT ![id] =
                           [n |-> IF @.n < MaxSaves THEN @.n + 1 ELSE @.n,
                            content |-> content, translated |-> translated,
                            content_hash |-> hash]]
  /\ UNCHANGED <<clsText, clsMedia, clsResult, probe, world, flaky, now,
                 sent_message_hashes, translation_cache, is_fetching, cached_user_id,
                 taskVars, delivered, outcome>>

InitStore ==
  /\ clsText = <<>>
  /\ clsMedia = <<>>
  /\ clsResult = NoResult
  /\ PipeInit
  /\ world = TimelineBlock
  /\ lastSave = [p \in Posts |-> NoSave]
  /\ probe = NoProbe

NextStore ==
  \/ \E id \in Posts : \E content \in Texts, translated \in SaveTags :
       StoreSave(id, content, translated)
  \/ Advance

SpecStore == InitStore /\ [][NextStore]_vars

(* ------------------- the filter of fetch_tweets on one post ----------- *)
Relations == {"none", "self", "other"}

\* the posts the target account can publish, by what the filter reads of them:
\* the mentions in the text and whether the text starts with '@', the author
\* of a reposted post, the user named after a leading "RT @", the replied-to
\* user.  A text that starts with "RT @name" mentions name and does not start
\* with '@'.
Shapes ==
  {tw \in [text : {<<"w8", "sp", "w8">>}, note : {<<>>}, full : {<<"w8", "sp", "w8">>},
           media : {<<>>}, created_at : {0},
           mentionSelf : BOOLEAN, mentionOther : BOOLEAN, atStart : BOOLEAN,
           retweetOf : Relations, legacyRT : Relations, replyTo : Relations] :
     /\ tw.legacyRT = "self" => tw.mentionSelf
     /\ tw.legacyRT = "other" => tw.mentionOther
     /\ tw.legacyRT # "none" => ~tw.atStart}

\* the ages at which the filter sees the post
ProbeTimes == {FreshMinutes - 1, FreshMinutes, FreshMinutes + 1}

\* the first loop of fetch_tweets on a reply holding the one post of the timeline
FilterProbe(lkRt, lkRe) ==
  /\ probe = NoProbe
  /\ probe' = [op |-> "filter", lkRt |-> lkRt, lkRe |-> lkRe,
               interaction |-> is_self_interaction(world[1], lkRt, lkRe),
               batch |-> Filter(<<1>>, <<<<lkRt, lkRe>>>>, processed_tweets, now)]
  /\ UNCHANGED <<clsText, clsMedia, clsResult, lastSave, pipeVars>>

InitFilter ==
  /\ clsText = <<>>
  /\ clsMedia = <<>>
  /\ clsResult = NoResult
  /\ \E tw \in Shapes, t0 \in ProbeTimes : PipeInitWith(<<tw>>, FALSE, t0, InitStats)
  /\ lastSave = [p \in Posts |-> NoSave]
  /\ probe = NoProbe

NextFilter == \E lkRt \in BOOLEAN, lkRe \in BOOLEAN : FilterProbe(lkRt, lkRe)

SpecFilter == InitFilter /\ [][NextFilter]_vars

(* ------------------ the store with writes that can fail --------------- *)
\* a direct call of save_processed_tweet, for a thread continuation or not,
\* with an INSERT that goes through or raises.  The record of the call keeps
\* the indices and since_id as they were before it.
SaveCall(id, content, translated, is_thread, wrote) ==
  /\ id \in Posts
  /\ content \in SaveContents(id)
  /\ translated \in SaveTags
  /\ LET hash == generate_content_hash(content, <<>>)
     IN  /\ Store(SaveAttempt(Mem, id, content, translated, hash, is_thread, now, wrote))
         /\ probe' = [op |-> "save", id |-> id, content_hash |-> hash,
                      is_thread |-> is_thread, wrote |-> wrote,
                      db |-> db, pt |-> processed_tweets,
                      ph |-> processed_content_hashes, since |-> since_id]
  /\ UNCHANGED <<clsText, clsMedia, clsResult, lastSave, world, flaky, now,
                 sent_message_hashes, translation_cache, is_fetching, cached_user_id,
                 taskVars, delivered, outcome>>

InitWrite ==
  /\ clsText = <<>>
  /\ clsMedia = <<>>
  /\ clsResult = NoResult
  /\ PipeInit
  /\ world = TimelineBlock
  /\ lastSave = [p \in Posts |-> NoSave]
  /\ probe = NoProbe

NextWrite ==
  \E id \in Posts : \E content \in Texts, translated \in SaveTags :
    \E is_thread \in BOOLEAN, wrote \in BOOLEAN :
      SaveCall(id, content, translated, is_thread, wrote)

SpecWrite == InitWrite /\ [][NextWrite]_vars

(* --------------------- the account rotation on its own ---------------- *)
\* the calls update_account_stats has counted so far
Reports(stats) ==
  LET RECURSIVE Sum(_)
      Sum(S) == IF S = {} THEN 0
                ELSE LET a == CHOOSE x \in S : TRUE
                     IN  stats[a].api_calls + Sum(S \ {a})
  IN  Sum(DOMAIN stats)

\* get_best_available_account called at the present time.  The record keeps
\* the time of the call, what it returned, whether it raised, and the account
\* that the call of update_account_stats just before it brought to
\* FailureLimit.
SelectAccount ==
  /\ IF GetBestRaises(account_stats)
     THEN /\ probe' = [op |-> "select", t |-> now, returned |-> {}, raised |-> TRUE,
                       tripped |-> {}]
          /\ UNCHANGED <<db, memVars>>
     ELSE /\ Store(Select(Mem, now))
          /\ probe' = [op |-> "select", t |-> now, returned |-> {current_account_index'},
                       raised |-> FALSE,
                       tripped |-> IF probe.op = "report" THEN probe.tripped ELSE {}]
          /\ UNCHANGED <<sent_message_hashes, translation_cache, is_fetching, cached_user_id>>
  /\ UNCHANGED <<clsText, clsMedia, clsResult, lastSave, world, flaky, now, taskVars,
                 delivered, outcome>>

\* update_account_stats called at the present time for account a; cur0 is
\* current_account_index before the call
ReportOutcome(a, success, rate_limited) ==
  /\ Reports(account_stats) < MaxReports
  /\ rate_limited => ~success
  /\ Store(update_account_stats(Mem, a, success, rate_limited, now))
  /\ probe' = [op |-> "report", t |-> now, account |-> a, success |-> success,
               rate_limited |-> rate_limited, raised |-> FALSE,
               cur0 |-> current_account_index,
               tripped |-> IF /\ a \in DOMAIN account_stats
                              /\ ~success /\ ~rate_limited
                              /\ account_stats'[a].consecutive_failures = FailureLimit
                           THEN {a} ELSE {}]
  /\ UNCHANGED <<clsText, clsMedia, clsResult, lastSave, world, flaky, now,
                 sent_message_hashes, translation_cache, is_fetching, cached_user_id,
                 taskVars, delivered, outcome>>

\* half a time slot passes
Tick ==
  /\ now + SlotMinutes \div 2 <= MaxClock
  /\ now' = now + SlotMinutes \div 2
  /\ UNCHANGED <<clsVars, world, flaky, db, memVars, taskVars, delivered, outcome>>

InitAccounts ==
  /\ clsText = <<>>
  /\ clsMedia = <<>>
  /\ clsResult = NoResult
  /\ \E n \in 0..MaxAccounts : PipeInitWith(TimelineOne, FALSE, 0, StatsOf(n))
  /\ lastSave = [p \in Posts |-> NoSave]
  /\ probe = NoProbe

NextAccounts ==
  \/ SelectAccount
  \/ \E a \in 0..(MaxAccounts - 1), success \in BOOLEAN, rate_limited \in BOOLEAN :
       ReportOutcome(a, success, rate_limited)
  \/ Tick

SpecAccounts == InitAccounts /\ [][NextAccounts]_vars

(* ------------------ send_telegram_message on its own ------------------ *)
\* the fingerprint of message number id: message 1 is the message of post 1,
\* the others are messages of other posts
HashOf(id) == generate_message_hash(<<"normal", "tr">>, <<>>, id)

\* The fingerprints other than that of message 1 are interchangeable, so of
\* the subsets list(a_set)[-keep:] can leave, two stand for all: the one with
\* the lowest post IDs, which keeps message 1 if it is there, and the one
\* with the highest, which drops it.
TrimChoices(S, max, keep) ==
  IF Cardinality(S) > max
  THEN {{h \in S : Cardinality({g \in S : g[1] < h[1]}) < keep},
        {h \in S : Cardinality({g \in S : g[1] > h[1]}) < keep}}
  ELSE {S}

StartProbe == [op |-> "none", id |-> 0, cached |-> FALSE, sent |-> FALSE, n |-> 0,
               others |-> 0]

\* send_telegram_message(content, media_urls, tweet_id) as one step: the
\* duplicate test, the trim of the cache, the attempts so, the new entry.
\* The record keeps the number of calls and of calls for other messages;
\* the other messages are each sent once, with success.
SendMessage(id, so, kept) ==
  LET h == HashOf(id)
      dup == AlreadySent(h, sent_message_hashes)
      ok == ~dup /\ so # "failed"
  IN  /\ probe.n < MaxSends
      /\ id \in {1, probe.others + 2}
      /\ so \in SendOutcomes(<<>>)
      /\ id # 1 => so # "failed"
      /\ kept \in TrimArbitrary(sent_message_hashes, max_sent_cache, KeepSentCache)
      /\ sent_message_hashes' = IF dup THEN sent_message_hashes
                                ELSE IF ok THEN kept \cup {h} ELSE kept
      /\ delivered' = [delivered EXCEPT ![1] = IF id = 1 /\ ok THEN Bump(@) ELSE @]
      /\ probe' = [op |-> "send", id |-> id, cached |-> dup, sent |-> ok,
                   n |-> probe.n + 1,
                   others |-> IF id = 1 THEN probe.others ELSE probe.others + 1]
      /\ UNCHANGED <<clsText, clsMedia, clsResult, lastSave, world, flaky, now, db,
                     processed_tweets, processed_content_hashes, since_id, processing,
                     translation_cache, is_fetching, cached_user_id,
                     current_account_index, account_stats, taskVars, outcome>>

\* the cleanup_memory job between two calls
CleanSent(kept) ==
  /\ Cardinality(sent_message_hashes) > max_sent_cache
  /\ cleanup_memory(translation_cache, processed_content_hashes, kept)

InitSend ==
  /\ clsText = <<>>
  /\ clsMedia = <<>>
  /\ clsResult = NoResult
  /\ PipeInitWith(TimelineOne, FALSE, 0, InitStats)
  /\ lastSave = [p \in Posts |-> NoSave]
  /\ probe = StartProbe

NextSend ==
  \/ \E id \in 1..(MaxSends + 1), so \in {"text", "fallback_text", "failed"},
        kept \in TrimChoices(sent_message_hashes, max_sent_cache, KeepSentCache) :
       SendMessage(id, so, kept)
  \/ \E kept \in TrimChoices(sent_message_hashes, max_sent_cache, KeepSentCache) :
       CleanSent(kept)

SpecSend == InitSend /\ [][NextSend]_vars

(* ------------------- a bot with a history in its store ---------------- *)
\* a record of an earlier post, blocked before process_tweet at time t; the
\* IDs of earlier posts are below those of the timeline
OldRow(id, t) ==
  Row(id, <<"phrase">>, <<"EARLY-BLOCKED", "blocked_phrase">>,
      generate_content_hash(<<"phrase">>, <<>>), t)

\* n records written at time t, for the posts -n .. -1
History(n, t) == [i \in 1..n |-> OldRow(i - n - 1, t)]

\* the time at which the aged store is opened
LateStart == Retention + LoadWindow

\* the stores the bot is started on, each with the time of the start:
\* one with MaxProcessedTweets + 1 records of the present hour, and one with a
\* record past the retention, one at the retention limit and one of the
\* last 24 hours
Stores ==
  {<<History(MaxProcessedTweets + 1, 0), 0>>,
   <<(<<OldRow(0 - 3, 0), OldRow(0 - 2, LateStart - Retention),
        OldRow(0 - 1, LateStart - LoadWindow + 1)>>), LateStart>>}

InitLong ==
  /\ clsText = <<>>
  /\ clsMedia = <<>>
  /\ clsResult = NoResult
  /\ \E st \in Stores : PipeInitOn(TimelineEarly, FALSE, st[2], InitStats, st[1])
  /\ lastSave = [p \in Posts |-> NoSave]
  /\ probe = NoProbe

\* the ingestion cycle, the two cleanup jobs and the restart
NextLong ==
  \/ \E t \in Tasks : FetchStart(t, IF cached_user_id THEN "cached" ELSE "ok")
  \/ \E t \in Tasks : FetchFailed(t, "empty")
  \/ \E t \in Tasks : \E reply \in SeqsUpTo(Posts, MaxBatch) :
       \E lks \in [1..Len(reply) -> {<<TRUE, TRUE>>}] : FetchReply(t, reply, lks)
  \/ \E t \in Tasks : CycleDone(t)
  \/ \E t \in Tasks : EarlyBlock(t)
  \/ \E t \in Tasks : ProcessTweet(t, TRUE, TRUE, "ok")
  \/ \E t \in Tasks : TranslateDone(t, "tr", sent_message_hashes)
  \/ \E t \in Tasks, so \in {"media_group", "failed"} : SendDone(t, so)
  \/ \E t \in Tasks : SleepDone(t)
  \/ cleanup_memory(translation_cache, processed_content_hashes, sent_message_hashes)
  \/ cleanup_db
  \/ Restart({})

SpecLong == InitLong /\ [][NextLong]_vars

(* --------------------- the cycle under fair scheduling ---------------- *)
\* an exception that no handler inside the loop catches, such as
\* asyncio.CancelledError at the sleep between two posts, leaves the inner
\* try block of fetch_tweets through its finally clause
CycleRaised(t) ==
  /\ pc[t] \in {"loop", "sleeping"}
  /\ EndCycle(t)
  /\ UNCHANGED <<clsVars, world, flaky, now, db, processed_tweets, processed_content_hashes,
                 since_id, processing, sent_message_hashes, translation_cache,
                 cached_user_id, current_account_index, account_stats, cycles,
                 delivered, outcome>>

\* a step of the running cycle: an awaited call returns or the loop moves on
CycleStep ==
  \/ \E t \in Tasks, fo \in {"ratelimit", "error", "empty"} : FetchFailed(t, fo)
  \/ \E t \in Tasks : \E reply \in SeqsUpTo(Posts, MaxBatch) :
       \E lks \in [1..Len(reply) -> BOOLEAN \X BOOLEAN] : FetchReply(t, reply, lks)
  \/ \E t \in Tasks : CycleDone(t)
  \/ \E t \in Tasks : EarlyBlock(t)
  \/ \E t \in Tasks, lkRt \in BOOLEAN, lkRe \in BOOLEAN,
        exp \in {"ok", "nodata", "ratelimit", "error"} : ProcessTweet(t, lkRt, lkRe, exp)
  \/ \E t \in Tasks, tr \in {"tr", "orig"} : \E kept \in SUBSET sent_message_hashes :
       TranslateDone(t, tr, kept)
  \/ \E t \in Tasks, so \in {"media_group", "text", "fallback_text", "failed"} : SendDone(t, so)
  \/ \E t \in Tasks : SleepDone(t)

InitLive ==
  /\ clsText = <<>>
  /\ clsMedia = <<>>
  /\ clsResult = NoResult
  /\ \E sc \in {<<TimelineOne, TRUE>>, <<TimelineEarly, FALSE>>} :
       PipeInitWith(sc[1], sc[2], 0, InitStats)
  /\ lastSave = [p \in Posts |-> NoSave]
  /\ probe = NoProbe

NextLive ==
  \/ \E t \in Tasks : TickSkipped(t)
  \/ \E t \in Tasks, uo \in {"cached", "ok", "nodata", "ratelimit", "error"} : FetchStart(t, uo)
  \/ CycleStep
  \/ \E t \in Tasks : CycleRaised(t)
  \/ \E kc \in SUBSET translation_cache, kh \in SUBSET processed_content_hashes,
        ks \in SUBSET sent_message_hashes : cleanup_memory(kc, kh, ks)

\* every call the cycle awaits returns in the end, and the event loop runs a
\* task that is ready
SpecLive == InitLive /\ [][NextLive]_vars /\ WF_vars(CycleStep)

(* ------------- the cycle on truncated posts, with time passing -------- *)
InitExpand ==
  /\ clsText = <<>>
  /\ clsMedia = <<>>
  /\ clsResult = NoResult
  /\ PipeInitWith(TimelineLong, FALSE, 0, InitStats)
  /\ lastSave = [p \in Posts |-> NoSave]
  /\ probe = NoProbe

\* one task runs cycles whose posts need get_note_tweet_content, while the
\* clock moves on between the awaits
NextExpand ==
  \/ \E t \in Tasks : FetchStart(t, IF cached_user_id THEN "cached" ELSE "ok")
  \/ \E t \in Tasks : \E reply \in SeqsUpTo(Posts, MaxBatch) :
       \E lks \in [1..Len(reply) -> {<<TRUE, TRUE>>}] : FetchReply(t, reply, lks)
  \/ \E t \in Tasks : CycleDone(t)
  \/ \E t \in Tasks, exp \in {"ok", "nodata", "ratelimit", "error"} :
       ProcessTweet(t, TRUE, TRUE, exp)
  \/ \E t \in Tasks : TranslateDone(t, "tr", sent_message_hashes)
  \/ \E t \in Tasks : SendDone(t, "text")
  \/ \E t \in Tasks : SleepDone(t)
  \/ Tick

SpecExpand == InitExpand /\ [][NextExpand]_vars

(* ---------------------- properties of the classifier ------------------ *)
Reasons == {"empty_text", "blocked_phrase", "blocked_domain", "blocked_pattern",
            "emoji_only", "link_only", "blocked_media", "short_content_with_link_emoji",
            "normal", "error_blocked_for_safety"}

\* what each rule of should_skip_post looks for, taken on its own
RuleMatches(rule, text, media_urls) ==
  CASE rule = "empty_text" -> Len(Strip(text)) = 0
    [] rule = "blocked_phrase" -> Contains(Lower(text), "phrase")
    [] rule = "blocked_domain" -> Contains(Lower(text), "dom")
    [] rule = "emoji_only" -> is_emoji_only_post(text)
    [] rule = "link_only" -> is_link_only_post(text)
    [] rule = "blocked_media" -> \E i \in 1..Len(media_urls) : media_urls[i] = "bad"
    [] rule = "short_content_with_link_emoji" ->
         CountWordChars(RemoveSpace(RemoveEmoji(RemoveUrlRuns(text, {"url"}, FALSE))))
           < MinContentChars
    [] OTHER -> FALSE

RECURSIVE FirstMatch(_, _, _)
FirstMatch(order, text, media_urls) ==
  IF order = <<>> THEN "normal"
  ELSE IF RuleMatches(Head(order), text, media_urls) THEN Head(order)
  ELSE FirstMatch(Tail(order), text, media_urls)

\* the order in which the try block of should_skip_post runs its rules
CodeOrder == <<"empty_text", "blocked_phrase", "blocked_domain", "emoji_only", "link_only",
               "blocked_media", "short_content_with_link_emoji">>

\* the order the specification gives
SpecOrder == <<"empty_text", "blocked_phrase", "blocked_domain", "blocked_media",
               "emoji_only", "link_only", "short_content_with_link_emoji">>

Classified == clsResult # NoResult

AllUrlsGiven == \A i \in 1..Len(clsMedia) : clsMedia[i] # "none"

\* C9 as stated: the reason should_skip_post returns is that of the first
\* matching rule in the order EmptyText, BlockedPhrase/BlockedDomain,
\* BlockedMedia, EmojiOnly, LinkOnly, TooShort.
C9_SpecOrder ==
  (Classified /\ AllUrlsGiven) =>
    clsResult.reason = FirstMatch(SpecOrder, clsText, clsMedia)

\* C9 amended: the reason should_skip_post returns is that of the first
\* matching rule in the order EmptyText, BlockedPhrase/BlockedDomain, EmojiOnly,
\* LinkOnly, BlockedMedia, TooShort, and the post is skipped exactly when a
\* rule matches; a denylisted media URL under emoji-only or link-only text is
\* reported as EmojiOnly or LinkOnly.
C9_CodeOrder ==
  (Classified /\ AllUrlsGiven) =>
    /\ clsResult.reason = FirstMatch(CodeOrder, clsText, clsMedia)
    /\ clsResult.skip = (clsResult.reason # "normal")

C9_Witness ==
  /\ Classified
  /\ clsMedia = <<"bad">>
  /\ clsResult.reason \in {"emoji_only", "link_only"}

\* C10: should_skip_post returns one (skip, reason) pair for every text and
\* media list and never raises; when its try block raises, the pair is
\* skip = true with the reason error_blocked_for_safety.
C10_TotalFailsClosed ==
  Classified =>
    /\ clsResult \in [skip : BOOLEAN, reason : Reasons]
    /\ clsResult = should_skip_post(clsText, clsMedia)
    /\ (ShouldSkipBody(clsText, clsMedia) = Raised =>
          clsResult = Result(TRUE, "error_blocked_for_safety"))
    /\ (clsResult.reason = "error_blocked_for_safety" => clsResult.skip)

C10_Witness ==
  /\ Classified
  /\ ShouldSkipBody(clsText, clsMedia) = Raised
  /\ clsResult = Result(TRUE, "error_blocked_for_safety")

\* the text holds a word outside its URLs and neither a denylisted phrase nor a
\* denylisted domain
WordsAndUrl(text) ==
  /\ Contains(text, "url")
  /\ ~Contains(Lower(text), "phrase") /\ ~Contains(Lower(text), "dom")
  /\ \E i \in 1..Len(RemoveUrlRuns(text, {"url"}, FALSE)) :
       WordChars(RemoveUrlRuns(text, {"url"}, FALSE)[i]) > 0

\* C11 as stated: "Check out https://t.co/abc123" is skipped with reason
\* LinkOnly.
C11_ScenarioLinkOnly ==
  (Classified /\ clsText = ScenarioC /\ clsMedia = <<>>) =>
    clsResult = Result(TRUE, "link_only")

\* C11 amended: a text of words followed by a URL, without media, is never
\* LinkOnly; it is skipped as TooShort when fewer than 15 word characters remain
\* outside the URL and passes otherwise, and "Check out https://t.co/abc123"
\* (8 word characters) is skipped as TooShort.
C11_ScenarioTooShort ==
  (Classified /\ clsMedia = <<>> /\ WordsAndUrl(clsText)) =>
    /\ clsResult.reason # "link_only"
    /\ clsResult =
         (IF CountWordChars(RemoveUrlRuns(clsText, {"url"}, FALSE)) < MinContentChars
          THEN Result(TRUE, "short_content_with_link_emoji")
          ELSE Result(FALSE, "normal"))
    /\ clsText = ScenarioC => clsResult = Result(TRUE, "short_content_with_link_emoji")

C11_Witness ==
  /\ Classified
  /\ clsText = ScenarioC
  /\ clsMedia = <<>>
  /\ clsResult = Result(TRUE, "short_content_with_link_emoji")

(* ------------------------ properties of the filter -------------------- *)
Filtered == probe.op = "filter"

Tw == world[1]

Fresh == now - Tw.created_at <= FreshMinutes

OnlyOthersMentioned == Tw.mentionOther /\ ~Tw.mentionSelf

Standalone == Tw.retweetOf = "none" /\ Tw.legacyRT = "none" /\ Tw.replyTo = "none"

RetweetLookupFailed == ~Tw.mentionSelf /\ Tw.retweetOf # "none" /\ ~probe.lkRt

ReplyLookupFailed ==
  /\ ~Tw.mentionSelf
  /\ ~(Tw.retweetOf # "none" /\ probe.lkRt)
  /\ Tw.legacyRT = "none"
  /\ Tw.replyTo # "none"
  /\ ~probe.lkRe

\* C13: a post whose interaction kind could not be determined, because the
\* lookup of the reposted post's author or of the replied-to user failed, is
\* rejected by the filter and never accepted as a normal post.
C13_UndeterminedRejected ==
  (Filtered /\ (RetweetLookupFailed \/ ReplyLookupFailed)) => probe.batch = <<>>

\* C14: a post is rejected as too old exactly when its age is strictly greater
\* than 60 minutes: at 60 minutes and below the filter goes on to
\* is_self_interaction and keeps a post that is no repost, no reply and
\* mentions nobody; above 60 minutes the post is dropped whatever it is, and
\* neither should_skip_post nor process_tweet sees it.
C14_StrictCutoff ==
  Filtered =>
    /\ is_tweet_too_old(Tw.created_at, now) <=> now - Tw.created_at > FreshMinutes
    /\ is_tweet_too_old(Tw.created_at, now) => probe.batch = <<>>
    /\ (~is_tweet_too_old(Tw.created_at, now) /\ Standalone
          /\ ~Tw.mentionSelf /\ ~Tw.mentionOther) => probe.batch = <<1>>

C14_Witness ==
  /\ Filtered
  /\ now - Tw.created_at = FreshMinutes
  /\ Standalone
  /\ probe.batch = <<1>>

\* C22: a post the filter skips, as too old or as an interaction with others,
\* leaves a record for its ID in the store.
C22_SkippedLeavesRecord ==
  (Filtered /\ probe.batch = <<>>) =>
    /\ 1 \in RowIds(db)
    /\ 1 \in processed_tweets

Selected == probe.op = "select" /\ ~probe.raised

Reported == probe.op = "report" /\ probe.account \in DOMAIN account_stats

\* the accounts that are not rate-limited at time t
Free(t) == {a \in DOMAIN account_stats : account_stats[a].rate_limited_until <= t}

Preferred(t) == (t \div SlotMinutes) % NumberOf(account_stats)

Lowest(S) == CHOOSE a \in S : \A b \in S : a <= b

\* C15: with at least one account, get_best_available_account at time t
\* returns the account of index floor(t / 20 min) mod N if it is not
\* rate-limited at t, otherwise the lowest-index account that is not
\* rate-limited at t, otherwise account 0, and current_account_index is set
\* to the index returned.
C15_SelectionRule ==
  Selected =>
    /\ probe.returned =
         {IF Preferred(probe.t) \in Free(probe.t) THEN Preferred(probe.t)
          ELSE IF Free(probe.t) # {} THEN Lowest(Free(probe.t))
          ELSE 0}
    /\ probe.returned = {current_account_index}

C15_Witness ==
  /\ Selected
  /\ NumberOf(account_stats) = 3
  /\ Preferred(probe.t) = 0
  /\ Free(probe.t) = {2}
  /\ probe.returned = {2}
  /\ current_account_index = 2

\* C16: while an account's rate_limited_until lies in the future and some
\* other account is not rate-limited, get_best_available_account does not
\* return the rate-limited account.
C16_LimitedNotReturned ==
  Selected =>
    \A a \in DOMAIN account_stats :
      (account_stats[a].rate_limited_until > probe.t /\ Free(probe.t) # {})
        => a \notin probe.returned

\* three accounts, account 0 alone rate-limited, selection in the time slot
\* of account 0
C16_Witness ==
  /\ Selected
  /\ NumberOf(account_stats) = 3
  /\ Preferred(probe.t) = 0
  /\ Free(probe.t) = {1, 2}
  /\ probe.returned \subseteq {1, 2}

\* C17: get_best_available_account and update_account_stats never raise,
\* whatever the configuration and the state of the accounts.
C17_RotationNeverRaises ==
  probe.op \in {"select", "report"} => ~probe.raised

\* the indices get_next_available_account tries after index c, in order
After(c) ==
  [i \in 1..(NumberOf(account_stats) - 1) |-> (c + i) % NumberOf(account_stats)]

\* C18: a report with rate_limited = true sets the account's
\* rate_limited_until to the time of the call plus 20 minutes and, when an
\* account other than the current one is not rate-limited, moves
\* current_account_index to the first such account after the current one;
\* current_account_index then is not the reported account.
C18_RateLimitRotates ==
  (Reported /\ probe.rate_limited) =>
    /\ account_stats[probe.account].rate_limited_until = probe.t + CooldownMinutes
    /\ LET next == {i \in DOMAIN After(probe.cur0) : After(probe.cur0)[i] \in Free(probe.t)}
       IN  current_account_index =
             IF next = {} THEN probe.cur0 ELSE After(probe.cur0)[Lowest(next)]
    /\ Free(probe.t) # {} =>
         /\ current_account_index # probe.account
         /\ current_account_index \in Free(probe.t)

C18_Witness ==
  /\ Reported
  /\ probe.rate_limited
  /\ probe.cur0 = probe.account
  /\ NumberOf(account_stats) = 3
  /\ Free(probe.t) # {}
  /\ current_account_index # probe.account

\* C19: once a report without rate-limit signal has brought an account to
\* three consecutive failures, the next get_best_available_account selection
\* returns a different account whenever another account is not rate-limited.
C19_FailingAccountAvoided ==
  Selected =>
    \A a \in probe.tripped :
      Free(probe.t) \ {a} # {} => a \notin probe.returned

(* ------------------------ properties of the store --------------------- *)
RowsOf(table, id) == {i \in 1..Len(table) : table[i].tweet_id = id}

\* C8: after save_processed_tweet has been called for an ID, once or several
\* times with equal or different payloads, the table holds exactly one row for
\* the ID, the row carries the content, the translation and the fingerprint of
\* the last call, and the ID is in processed_tweets.
C8_OneRowLastWins ==
  \A id \in Posts :
    lastSave[id].n > 0 =>
      /\ Cardinality(RowsOf(db, id)) = 1
      /\ \A i \in RowsOf(db, id) :
           /\ db[i].content = lastSave[id].content
           /\ db[i].translated = lastSave[id].translated
           /\ db[i].content_hash = lastSave[id].content_hash
      /\ id \in processed_tweets

C8_Witness ==
  \E id \in Posts :
    /\ lastSave[id].n = 2
    /\ \A q \in Posts \ {id} : lastSave[q].n = 0
    /\ Cardinality(processed_content_hashes) = 2
    /\ Len(db) = 1
    /\ db[1].content = lastSave[id].content

(* ----------------------- properties of the pipeline ------------------- *)
Running == {t \in Tasks : pc[t] # "idle"}
InPass == {t \in Tasks : pc[t] \in {"translating", "sending"}}
Current(t) == Head(loc[t].batch)
BlockTags == {"ENTRY-BLOCKED", "EARLY-BLOCKED", "EXPANDED-BLOCKED", "MEDIA-BLOCKED"}

\* C1 as stated: the channel receives at most one message per post ID.
C1_AtMostOnce == \A p \in Posts : delivered[p] <= 1

\* nothing reaches translate_text or send_telegram_message unless
\* should_skip_post passed the content in hand together with its media URLs,
\* and that content is the note_tweet text whenever the post has one
RelayOnlyAfterPass ==
  \A t \in InPass :
    /\ ~should_skip_post(loc[t].content, loc[t].media).skip
    /\ loc[t].media = world[Current(t)].media
    /\ world[Current(t)].note # <<>> => loc[t].content = world[Current(t)].note
    /\ loc[t].content \in {world[Current(t)].text, world[Current(t)].note,
                           world[Current(t)].full}

\* the post's text as fetched passes the classifier and its note_tweet text
\* does not
NoteBlocked(p) ==
  /\ ~should_skip_post(world[p].text, <<>>).skip
  /\ world[p].note # <<>>
  /\ should_skip_post(world[p].note, <<>>).skip

\* C2 as stated: nothing is translated or sent unless should_skip_post passed
\* the final content with its media, and a post that is blocked only in its
\* expanded text ends with a tagged record and no message.
C2_BlockedExpansionRecorded ==
  /\ RelayOnlyAfterPass
  /\ \A p \in Posts :
       (\/ outcome[p] = "expanded_blocked"
        \/ NoteBlocked(p) /\ outcome[p] \notin {"none", "guard"}) =>
         /\ \E i \in RowsOf(db, p) : db[i].translated[1] \in BlockTags
         /\ delivered[p] = 0

\* a post whose relayed text is its text as fetched
Plain(p) == world[p].note = <<>> /\ ~is_truncated_tweet(world[p].text)
Fingerprint(p) == generate_content_hash(world[p].text, world[p].media)

\* C3 as stated: once a post with fingerprint F has reached the channel, no
\* other post with fingerprint F reaches it.
C3_NoSecondRelay ==
  [][\A q \in Posts :
       delivered'[q] > delivered[q] =>
         ~\E p \in Posts \ {q} :
            /\ delivered[p] > 0
            /\ Plain(p) /\ Plain(q)
            /\ Fingerprint(p) = Fingerprint(q)]_vars

\* C3 amended: a post reaches the channel only if its fingerprint is not in
\* processed_content_hashes; a post with the fingerprint of a recorded post is
\* skipped for as long as that fingerprint stays in the index, which a restart
\* rebuilds from the rows of the last 24 hours only.
C3_SkippedWhileIndexed ==
  [][\A t \in Tasks :
       (pc[t] \in {"translating", "sending"} /\ delivered'[Current(t)] > delivered[Current(t)])
         => loc[t].hash \notin processed_content_hashes]_vars

C3_Witness ==
  \E p \in Posts, q \in Posts :
    /\ p # q
    /\ Plain(p) /\ Plain(q) /\ Fingerprint(p) = Fingerprint(q)
    /\ delivered[p] = 1
    /\ outcome[p] = "committed"
    /\ outcome[q] = "duplicate"
    /\ delivered[q] = 0

\* C4: a process_tweet call for an ID that is in processed_tweets or in the
\* processing set returns without changing the table, the ID and fingerprint
\* indices, since_id, the processing set, the account statistics or the caches,
\* and nothing is translated or sent.
C4_GuardNoEffect ==
  [][\A t \in Tasks :
       (/\ pc[t] = "loop"
        /\ loc[t].batch # <<>>
        /\ Current(t) \in processed_tweets \cup processing
        /\ pc'[t] \notin {"loop", "idle"}) =>
         /\ pc'[t] = "sleeping"
         /\ outcome'[Current(t)] = "guard"
         /\ UNCHANGED <<db, processed_tweets, processed_content_hashes, since_id,
                        processing, current_account_index, account_stats,
                        sent_message_hashes, translation_cache, delivered>>]_vars

C4_Witness ==
  \E t \in Tasks :
    /\ pc[t] = "sleeping"
    /\ outcome[Current(t)] = "guard"
    /\ Current(t) \in processed_tweets
    /\ delivered[Current(t)] = 1
    /\ Cardinality(RowsOf(db, Current(t))) = 1

\* C5: the processing set holds exactly the IDs of the process_tweet calls in
\* progress, so it is empty whenever none is in progress, whichever way the
\* earlier calls ended.
C5_LockReleased == processing = {Current(t) : t \in InPass}

C5_Witness ==
  /\ world = TimelineBlock
  /\ outcome[1] = "expanded_blocked"
  /\ outcome[2] = "exception"
  /\ InPass = {}
  /\ processing = {}

\* C6: at most one fetch_tweets call is past the in-flight guard, and the
\* guard stays set for as long as that call runs.
C6_OneCycle ==
  /\ Cardinality(Running) <= 1
  /\ Running # {} => is_fetching

C6_Witness ==
  \E t \in Tasks, u \in Tasks :
    /\ pc[t] \in {"translating", "sending", "sleeping"}
    /\ pc[u] = "idle"
    /\ is_fetching
    /\ cycles < MaxCycles
    /\ ENABLED TickSkipped(u)

MaxOf(S) == IF S = {} THEN NoId ELSE CHOOSE x \in S : \A y \in S : y <= x

\* C7 as stated: since_id is the highest post ID recorded so far, and so never
\* goes down.
C7_HighestRecorded == since_id = MaxOf(RowIds(db))

\* C20: a post that reached the relay step has its row and its ID in
\* processed_tweets once process_tweet is over, whether the message was
\* delivered or not, and no later pass translates or sends it again.
C20_RecordedWhateverTheSend ==
  \A p \in Posts :
    outcome[p] = "committed" =>
      /\ p \in RowIds(db)
      /\ \A t \in Tasks : pc[t] \in {"translating", "sending"} => Head(loc[t].batch) # p

\* a post whose only send failed, recorded, with a later cycle under way
C20_Witness ==
  \E p \in Posts, t \in Tasks :
    /\ outcome[p] = "committed"
    /\ delivered[p] = 0
    /\ p \in RowIds(db)
    /\ p \in processed_tweets
    /\ cycles = MaxCycles
    /\ pc[t] = "fetching"

\* C21: every post that ends up committed has had a message delivered to
\* the destination channel.
C21_CommittedWasDelivered ==
  \A p \in Posts : outcome[p] = "committed" => delivered[p] >= 1

\* the sequence is in (created_at, id) order
InOrder(b) == \A i \in 1..Len(b), j \in 1..Len(b) : i < j => Before(b[i], b[j])

\* C23: within a cycle the candidates are in (created_at, id) order and are
\* handled one at a time from the front, so the messages delivered by the
\* cycle are in strictly increasing order and none of them comes after the
\* candidate in hand.
C23_InOrderOneAtATime ==
  /\ Cardinality(InPass) <= 1
  /\ \A t \in Tasks :
       LET b == loc[t].batch
           r == loc[t].relayed
       IN  /\ InOrder(b)
           /\ InOrder(r)
           /\ \A i \in 1..Len(r), j \in 1..Len(r) : i < j => r[i] # r[j]
           /\ b # <<>> => \A i \in 1..Len(r) : Before(r[i], Head(b))

C23_Witness ==
  \E t \in Tasks :
    /\ Len(loc[t].relayed) = 2
    /\ delivered[loc[t].relayed[1]] = 1
    /\ delivered[loc[t].relayed[2]] = 1

\* the tasks inside the second loop of fetch_tweets
InLoop == {t \in Tasks : pc[t] \in {"loop", "translating", "sending", "sleeping"}}

RepostKnown == Tw.retweetOf # "none" /\ probe.lkRt
ReplyKnown == Tw.replyTo # "none" /\ probe.lkRe

\* C29: a post that mentions the target account is self_mention_pure or
\* self_mention_mixed and is accepted, whatever it reposts or replies to; a
\* repost kind is returned only for a post without that mention, a reply kind
\* only for one that is no known repost either, and normal only when mention,
\* repost and reply checks all found nothing.
C29_SelfMentionFirst ==
  Filtered =>
    LET r == probe.interaction
        RepostSeen == RepostKnown \/ Tw.legacyRT # "none"
    IN  /\ Tw.mentionSelf =>
              /\ r.is_self
              /\ r.kind = IF Tw.mentionOther THEN "self_mention_mixed" ELSE "self_mention_pure"
              /\ Fresh => probe.batch = <<1>>
        /\ ~Tw.mentionSelf =>
              /\ RepostKnown => r.kind = IF Tw.retweetOf = "self" THEN "self_retweet"
                                        ELSE "other_retweet"
              /\ (~RepostKnown /\ Tw.legacyRT # "none") => r.kind = "other_retweet_legacy"
              /\ (~RepostSeen /\ ReplyKnown) => r.kind = IF Tw.replyTo = "self" THEN "self_reply"
                                                       ELSE "other_reply"
              /\ (~RepostSeen /\ ~ReplyKnown) => r.kind = "normal"

\* a post that reposts one third party, replies to another and mentions the
\* target account has gone through the filter
C29_Witness ==
  /\ Filtered
  /\ Tw.mentionSelf
  /\ Tw.retweetOf = "other" /\ probe.lkRt
  /\ Tw.replyTo = "other" /\ probe.lkRe
  /\ probe.interaction.kind = "self_mention_pure"
  /\ probe.batch = <<1>>

\* C30: every remote call made for a post in the filter is reported once to
\* update_account_stats: after the filter has run on a timeline of one post,
\* api_calls counts as many calls as is_self_interaction has made.
C30_EveryCallReported ==
  Filtered => Reports(account_stats) = Lookups(Tw, probe.lkRt, probe.lkRe)

BlockedKinds == {"entry_blocked", "expanded_blocked", "media_blocked"}

\* C31: a process_tweet call whose content passes should_skip_post and has its
\* fingerprint in processed_content_hashes returns as a duplicate: no
\* translation, no message, no row, and the table, both indices, since_id,
\* the processing set and the caches are as before the call.
C31_DuplicateNoEffect ==
  [][\A t \in Tasks :
       (/\ pc[t] = "loop"
        /\ loc[t].batch # <<>>
        /\ pc'[t] \notin {"loop", "idle"}
        /\ outcome'[Current(t)] \notin BlockedKinds \cup {"guard", "exception"}
        /\ loc'[t].hash \in processed_content_hashes) =>
         /\ pc'[t] = "sleeping"
         /\ outcome'[Current(t)] = "duplicate"
         /\ UNCHANGED <<db, processed_tweets, processed_content_hashes, since_id,
                        processing, sent_message_hashes, translation_cache, delivered>>]_vars

\* a pass has ended on the duplicate check: the post has no row, its ID is
\* in no index and since_id is the ID of an earlier post
C31_Witness ==
  \E t \in Tasks :
    /\ pc[t] = "sleeping"
    /\ outcome[Current(t)] = "duplicate"
    /\ loc[t].hash \in processed_content_hashes
    /\ Current(t) \notin RowIds(db)
    /\ Current(t) \notin processed_tweets
    /\ since_id # NoId /\ since_id # Current(t)
    /\ delivered[Current(t)] = 0

Saved == probe.op = "save"

\* C32: when save_processed_tweet returns after its INSERT went through, the
\* row is in the table, the ID is in processed_tweets and the fingerprint in
\* processed_content_hashes, all in the one step under db_lock; since_id is
\* the ID of the record unless the record is a thread continuation, and then
\* since_id is what it was.
C32_IndexedWithTheWrite ==
  (Saved /\ probe.wrote) =>
    /\ \E i \in RowsOf(db, probe.id) : db[i].content_hash = probe.content_hash
    /\ probe.id \in processed_tweets
    /\ probe.content_hash \in processed_content_hashes
    /\ since_id = IF probe.is_thread THEN probe.since ELSE probe.id

\* a thread continuation was saved after another post: the index has both
\* and since_id stayed with the other post
C32_Witness ==
  /\ Saved /\ probe.wrote /\ probe.is_thread
  /\ probe.id \in processed_tweets
  /\ since_id # NoId /\ since_id # probe.id

\* C36: when the INSERT of save_processed_tweet raises, the call returns all
\* the same and the table, processed_tweets, processed_content_hashes and
\* since_id are what they were before the call.
C36_FailedWriteNoEffect ==
  (Saved /\ ~probe.wrote) =>
    /\ db = probe.db
    /\ processed_tweets = probe.pt
    /\ processed_content_hashes = probe.ph
    /\ since_id = probe.since

\* the write for a post failed after another post had been saved: the post
\* has no row and is in no index
C36_Witness ==
  /\ Saved /\ ~probe.wrote /\ ~probe.is_thread
  /\ Len(db) = 1
  /\ probe.id \notin RowIds(db)
  /\ probe.id \notin processed_tweets
  /\ since_id \in RowIds(db)

\* C33: translate_text is called for a post only in a pass that found the ID
\* in neither processed_tweets nor the processing set and the fingerprint of
\* the content in hand not in processed_content_hashes, and
\* send_telegram_message is called only after translate_text has returned in
\* that same pass.
C33_ChecksBeforeRemoteCalls ==
  [][\A t \in Tasks :
       /\ (pc[t] # "translating" /\ pc'[t] = "translating") =>
            /\ pc[t] = "loop"
            /\ Current(t) \notin processed_tweets \cup processing
            /\ loc'[t].hash = generate_content_hash(loc'[t].content, loc'[t].media)
            /\ loc'[t].hash \notin processed_content_hashes
       /\ (pc[t] # "sending" /\ pc'[t] = "sending") =>
            /\ pc[t] = "translating"
            /\ loc'[t].batch = loc[t].batch
            /\ loc'[t].hash = loc[t].hash]_vars

\* the message of the second post of a cycle is on its way, after both checks
\* found other entries in the indices
C33_Witness ==
  \E t \in Tasks :
    /\ pc[t] = "sending"
    /\ processed_tweets # {}
    /\ processed_content_hashes # {}
    /\ Current(t) \notin processed_tweets
    /\ loc[t].hash \notin processed_content_hashes
    /\ Current(t) \in processing

\* C34: the report for the extended-text fetch of process_tweet goes to the
\* account get_best_available_account has just returned, whose client made
\* the call: no other account's statistics change in that call.
C34_ReportedAgainstUsedAccount ==
  [][\A t \in Tasks :
       (/\ pc[t] = "loop"
        /\ pc'[t] \notin {"loop", "idle"}) =>
         \A a \in DOMAIN account_stats :
           account_stats'[a] # account_stats[a] =>
             a = get_best_available_account(account_stats, now)]_vars

\* C35: a fetch_tweets call that has set the in-flight guard ends with the
\* guard cleared and no task left in the cycle, whichever way it ends.
C35_GuardCleared == is_fetching ~> (~is_fetching /\ Running = {})

\* the first cycle has ended with a post left unprocessed, and the next call
\* of fetch_tweets is past the guard
C35_Witness ==
  \E t \in Tasks :
    /\ cycles = MaxCycles
    /\ pc[t] = "fetching"
    /\ is_fetching
    /\ \E p \in Posts : outcome[p] = "none"

\* the posts whose last process_tweet call ended in its except clause, left
\* without a row
Failed == {p \in Posts : outcome[p] = "exception" /\ p \notin RowIds(db)}

\* C37 as stated: a post whose pass ended in an exception before any save
\* is offered again by every later cycle that starts while the post is
\* within the look-back of the request.
C37_EligibleAgain ==
  \A t \in Tasks, p \in Failed :
    (pc[t] = "fetching" /\ world[p].created_at >= loc[t].start) =>
      p \in Eligible(loc[t], now)

\* C37 as the code has it: the pass that ends in an exception changes neither
\* the table nor the indices nor since_id and leaves the ID out of the
\* processing set; a later cycle is offered the post again only while
\* since_id is unset or below its ID, and since_id moves past it as soon as
\* a later post is recorded.
C37_NoTraceOfFailedPass ==
  [][\A t \in Tasks :
       /\ (/\ pc[t] = "loop"
           /\ pc'[t] \notin {"loop", "idle"}
           /\ outcome'[Current(t)] = "exception") =>
            /\ UNCHANGED <<db, processed_tweets, processed_content_hashes, since_id,
                           processing>>
            /\ Current(t) \notin RowIds(db) \cup processed_tweets \cup processing
       /\ \A p \in Failed :
            (/\ pc[t] = "idle" /\ pc'[t] = "fetching"
             /\ world[p].created_at >= loc'[t].start) =>
              (p \in Eligible(loc'[t], now) <=> (since_id = NoId \/ since_id < p))]_vars

\* the post whose pass failed in the first cycle is in the batch of the
\* second
C37_Witness ==
  \E t \in Tasks :
    /\ cycles = MaxCycles
    /\ pc[t] = "loop"
    /\ loc[t].batch # <<>>
    /\ Current(t) \in Failed
    /\ processing = {}
    /\ since_id = NoId

\* C38: no step adds an account to account_stats or removes one, no step
\* lowers api_calls, successful_calls or failed_calls of an account, and
\* after every step api_calls is the sum of the other two.
C38_CountersConsistent ==
  [][/\ DOMAIN account_stats' = DOMAIN account_stats
     /\ \A a \in DOMAIN account_stats :
          /\ account_stats'[a].api_calls >= account_stats[a].api_calls
          /\ account_stats'[a].successful_calls >= account_stats[a].successful_calls
          /\ account_stats'[a].failed_calls >= account_stats[a].failed_calls
          /\ account_stats'[a].api_calls =
               account_stats'[a].successful_calls + account_stats'[a].failed_calls]_vars

\* an account has successes and failures on its record, and the last report
\* named an account that is not configured
C38_Witness ==
  /\ probe.op = "report"
  /\ probe.account \notin DOMAIN account_stats
  /\ \E a \in DOMAIN account_stats :
       /\ account_stats[a].successful_calls >= 1
       /\ account_stats[a].failed_calls >= 1

(* ------------------ properties of the bot with a history -------------- *)
\* C26: while a cycle is under way, processed_tweets,
\* processed_content_hashes and the processing set change only in steps of
\* the task that runs the cycle (or when the process starts again); the
\* scheduler's cleanup jobs do not touch them.
C26_OnlyIngestionMutates ==
  [][(/\ is_fetching
      /\ <<processed_tweets, processed_content_hashes, processing>>' #
           <<processed_tweets, processed_content_hashes, processing>>) =>
       \/ cycles' = 0
       \/ \E t \in Tasks : pc[t] # "idle" /\ <<pc[t], loc[t]>>' # <<pc[t], loc[t]>>]_vars

\* C27: cleanup_db removes no row that load_processed_tweets reads: the IDs,
\* the fingerprints and the watermark a restart would load are the same
\* after the deletion as before it.
C27_PruneKeepsWatermark ==
  [][Len(db') < Len(db) =>
       /\ LoadSince(db', now) = LoadSince(db, now)
       /\ LoadIds(db', now) = LoadIds(db, now)
       /\ LoadHashes(db', now) = LoadHashes(db, now)]_vars

\* the store was pruned and the bot started again on it
C27_Witness ==
  /\ now = LateStart
  /\ Len(db) = 2
  /\ cycles = 0
  /\ since_id = 0 - 1
  /\ processed_tweets = {0 - 1}

\* the index holds the ID and the fingerprint of every row of the last 24 hours
Covered ==
  \A i \in 1..Len(db) :
    db[i].processed_at > now - LoadWindow =>
      /\ db[i].tweet_id \in processed_tweets
      /\ db[i].content_hash \in processed_content_hashes

\* C28 as stated: the index covers the last 24 hours at every moment, after
\* any number of cleanup_memory runs too.
C28_IndexCoversWindow == Covered

\* a cleanup_memory run that finds an index above its limit
TrimStep ==
  /\ \/ Cardinality(processed_tweets) > MaxProcessedTweets
     \/ Cardinality(processed_content_hashes) > MaxContentHashes
  /\ UNCHANGED <<db, taskVars>>

\* C28 as the code has it: the index covers the last 24 hours after a
\* restart, and every step keeps it so other than a cleanup_memory run that finds
\* more than 1000 IDs or more than 2000 fingerprints in it.
C28_CoveredUntilTrimmed ==
  [][((Covered /\ ~TrimStep) \/ (cycles # 0 /\ cycles' = 0)) => Covered']_vars

\* a restart has read back more than MaxProcessedTweets rows, a post of the
\* timeline among them
C28_Witness ==
  /\ cycles = 0
  /\ Cardinality(processed_tweets) > MaxProcessedTweets
  /\ 1 \in processed_tweets
  /\ Covered

====
